---- MODULE Spec2Model ----
(***************************************************************************)
(* A model of parts of pdfnaut.                                            *)
(*                                                                         *)
(*  1. PageList (src/src/pdfnaut/page_list.py): the mutable sequence of    *)
(*     the pages of a document, kept next to the page tree and the object  *)
(*     store of that document.  Python objects are modelled as a heap:     *)
(*     `dicts` holds every dictionary (index = identity of its .data),     *)
(*     `pyPages` every Page object (index = identity), `objects` is the    *)
(*     destination document's object store (object number -> dictionary), *)
(*     `indexed_pages` is PageList._indexed_pages.                         *)
(*                                                                         *)
(*  2. PdfParser.parse (src/pdfnaut/parsers/pdf.py): the walk over the     *)
(*     Prev chain of cross-reference sections and the merge of the tables. *)
(*     resolve_reference is applied to the merged table; SpecParseAny      *)
(*     runs the same walk on files whose Prev links form cycles.           *)
(*                                                                         *)
(*  3. StandardSecurityHandler and decrypt (security/standard_handler.py,  *)
(*     document.py): MD5 and ARC4 are symbolic terms, equal only when      *)
(*     built from equal inputs.                                            *)
(*                                                                         *)
(*  4. Pure functions, applied to `arguments` with the outcome in          *)
(*     `result`: pad_password, PdfStream.decode with the ASCIIHex and      *)
(*     RunLength filters, the PNG prediction of FlateFilter, and           *)
(*     clone_into_document (common/utils.py).                              *)
(*                                                                         *)
(*  5. SimpleObjectParser (src/pdfnaut/parsers/simple.py): the tokenizer   *)
(*     over a sequence of bytes and parse_literal_string (SpecString).     *)
(*                                                                         *)
(*  6. PdfParser.parse_indirect_object, parse_stream and                   *)
(*     resolve_reference over the bytes of a file (SpecObject): stream     *)
(*     objects whose Length is direct, indirect, cyclic or missing.        *)
(*                                                                         *)
(* Python indices are kept 0-based (and possibly negative) in every        *)
(* operator that carries a source name; they are converted to 1-based      *)
(* positions only where a TLA+ sequence is touched.                        *)
(***************************************************************************)
EXTENDS Integers, Sequences, FiniteSets, TLC

VARIABLES
    objects,        \* PdfParser.objects of the destination: object number -> dict id, FreeObject
    dicts,          \* heap of dictionaries: dict id -> record
    pyPages,        \* heap of Page objects: page id -> [data, ref]
    indexed_pages,  \* PageList._indexed_pages: sequence of page ids
    last,           \* the last PageList call: operation, arguments, exception raised
    file,           \* the input buffer seen as xref sections, and its final startxref
    pc,             \* position of PdfParser.parse
    start_xref,     \* argument of the current parse() frame
    update_xrefs,   \* PdfParser.update_xrefs
    trailers,       \* PdfParser._trailers
    xref,           \* PdfParser.xref
    trailer,        \* PdfParser.trailer
    resolved,       \* the last resolve_reference call: reference, result, exception
    security_handler,   \* PdfParser.security_handler: None or the Encrypt dictionary and ID
    _encryption_key,    \* PdfParser._encryption_key
    access_level,       \* PdfDocument.access_level
    decrypted,          \* the last decrypt call: password and value returned
    pages_read,         \* PdfDocument.pages read since the last decrypt: "", "PageList" or the exception
    arguments,      \* arguments of the function under study
    result          \* what the function returned or raised for them

pageVars == <<objects, dicts, pyPages, indexed_pages, last>>
parseVars == <<file, pc, start_xref, update_xrefs, trailers, xref, trailer, resolved>>
secVars == <<security_handler, _encryption_key, access_level, decrypted, pages_read>>
fnVars == <<arguments, result>>
vars == <<objects, dicts, pyPages, indexed_pages, last,
          file, pc, start_xref, update_xrefs, trailers, xref, trailer, resolved,
          security_handler, _encryption_key, access_level, decrypted, pages_read,
          arguments, result>>

\* ------------------------------------------------------------------ bounds
MaxOps == 2         \* PageList calls per behaviour
MaxIdx == 3         \* indices passed to PageList range over -MaxIdx..MaxIdx

\* --------------------------------------------------------- Python builtins
Min(a, b) == IF a <= b THEN a ELSE b
Max(a, b) == IF a >= b THEN a ELSE b
abs(i) == IF i < 0 THEN -i ELSE i

\* list[i] is defined for -len <= i < len, else IndexError
list_valid(seq, i) == -Len(seq) <= i /\ i < Len(seq)
\* the 1-based position of a valid Python index
list_pos(seq, i) == IF i < 0 THEN Len(seq) + i + 1 ELSE i + 1
list_get(seq, i) == seq[list_pos(seq, i)]
list_set(seq, i, x) == [seq EXCEPT ![list_pos(seq, i)] = x]
list_pop(seq, i) ==
    SubSeq(seq, 1, list_pos(seq, i) - 1) \o SubSeq(seq, list_pos(seq, i) + 1, Len(seq))
\* list.insert never raises: the index is clamped to 0..len
list_insert(seq, i, x) ==
    LET p == IF i < 0 THEN Max(0, Len(seq) + i) ELSE Min(i, Len(seq))
    IN SubSeq(seq, 1, p) \o <<x>> \o SubSeq(seq, p + 1, Len(seq))

\* ------------------------------------------------------------ dictionaries
\* A key that a dictionary does not hold is 0 (Parent, Res) or empty (Kids).
NoRef == [doc |-> 0, num |-> 0]           \* Page.indirect_ref is None
Ref(doc, num) == [doc |-> doc, num |-> num]

PagesDict(kids, count, parent) ==
    [Type |-> "Pages", Kids |-> kids, Count |-> count, Parent |-> parent, Res |-> 0, tag |-> 0]
PageDict(parent, res, tag) ==
    [Type |-> "Page", Kids |-> <<>>, Count |-> 0, Parent |-> parent, Res |-> res, tag |-> tag]
OtherDict(type, tag) ==
    [Type |-> type, Kids |-> <<>>, Count |-> 0, Parent |-> 0, Res |-> 0, tag |-> tag]

\* ------------------------------------------------------------ object store
FreeObject == 0     \* the sentinel a deleted slot holds; also "no dictionary"

\* reference.get(): the dictionary an object number designates, 0 (null) when
\* the slot is free or missing
get_object(objs, num) ==
    IF num \in 1..Len(objs) THEN objs[num] ELSE FreeObject

\* ObjectStore.get(num) is None
store_missing(objs, num) == num \notin 1..Len(objs)

\* ObjectStore.get_next_ref().object_number: numbers are handed out monotonically
get_next_ref(objs) == Len(objs) + 1

\* ObjectStore.add(obj): the store after the add; the new number is get_next_ref
store_add(objs, d) == Append(objs, d)

\* ObjectStore.delete(num): the slot keeps its number and holds the sentinel
store_delete(objs, num) ==
    IF num \in 1..Len(objs) THEN [objs EXCEPT ![num] = FreeObject] ELSE objs

\* --------------------------------------------------------------- documents
\* The other document a page may come from: 1 catalog, 2 root of the page tree,
\* 3 its page (with a resource dictionary), 4 the resources.  Its dictionaries
\* are dicts[1..4]; its object store never changes, only its dictionaries can.
OtherDicts ==
    << OtherDict("Catalog", 1),
       PagesDict(<<3>>, 1, 0),
       PageDict(2, 4, 3),
       OtherDict("Resources", 4) >>
OtherObjects == <<1, 2, 3, 4>>
OtherPage == [data |-> 3, ref |-> Ref(2, 3)]   \* pages[0] of the other document

\* The destination documents.  Object n of the destination is dicts[n + 4];
\* object 1 is the catalog and object 2 the root of the page tree.
BlankDoc ==        \* PdfDocument.new(): a root without pages
    << OtherDict("Catalog", 5), PagesDict(<<>>, 0, 0) >>
FlatDoc ==         \* two pages right under the root, sharing resources
    << OtherDict("Catalog", 5), PagesDict(<<3, 4>>, 2, 0),
       PageDict(2, 5, 7), PageDict(2, 5, 8), OtherDict("Resources", 9) >>
NestedDoc ==       \* an intermediate node with two pages, then a page
    << OtherDict("Catalog", 5), PagesDict(<<3, 6>>, 3, 0),
       PagesDict(<<4, 5>>, 2, 2), PageDict(3, 0, 8), PageDict(3, 0, 9),
       PageDict(2, 0, 10) >>
EmptyFirstDoc ==   \* an intermediate node without pages, then a page
    << OtherDict("Catalog", 5), PagesDict(<<3, 4>>, 1, 0),
       PagesDict(<<>>, 0, 2), PageDict(2, 0, 8) >>
EmptyLastDoc ==    \* a page, then an intermediate node without pages
    << OtherDict("Catalog", 5), PagesDict(<<3, 4>>, 1, 0),
       PageDict(2, 0, 7), PagesDict(<<>>, 0, 2) >>
Documents == {BlankDoc, FlatDoc, NestedDoc, EmptyFirstDoc, EmptyLastDoc}

RootRef == 2        \* PageList._root_tree_ref.object_number
RootDict == 6       \* PageList._root_tree: the dictionary object 2 held at construction

\* PdfDocument._flatten_pages: the references of the leaf pages under `root`,
\* depth first (the walk at construction, over a well-formed tree)
RECURSIVE flatten_from(_, _, _, _)
flatten_from(ds, objs, root, i) ==
    IF i > Len(ds[root].Kids) THEN <<>>
    ELSE LET page_ref == ds[root].Kids[i]
             page == get_object(objs, page_ref)
             here == IF page = FreeObject THEN <<>>
                     ELSE IF ds[page].Type = "Pages" THEN flatten_from(ds, objs, page, 1)
                     ELSE IF ds[page].Type = "Page" THEN <<page_ref>>
                     ELSE <<>>
         IN here \o flatten_from(ds, objs, root, i + 1)
_flatten_pages(ds, objs, root) == flatten_from(ds, objs, root, 1)

\* Page.from_dict(page, indirect_ref=page_ref): the Page shares the dictionary
from_dict(objs, num) == [data |-> get_object(objs, num), ref |-> Ref(1, num)]

\* ----------------------------------------------------- PageList, helpers
\* A heap state threaded through a call; exc is the exception raised, if any.
Heap(objs, ds, pgs, idx, exc) ==
    [objects |-> objs, dicts |-> ds, pyPages |-> pgs, indexed_pages |-> idx, exc |-> exc]
Raise(s, exc) == [s EXCEPT !.exc = exc]

\* PageList._pos_idx_of
_pos_idx_of(index, len) ==
    IF index >= 0 THEN Min(index, len) ELSE len - abs(index)

\* renumber_references(copy of page, ..., start): the referenced resources are
\* copied into the destination under the fresh number `start`
renumber_references(s, page, start) ==
    LET d == s.pyPages[page].data
        from == IF s.pyPages[page].ref.doc = 1 THEN s.objects ELSE OtherObjects
        res == IF s.dicts[d].Res = 0 THEN FreeObject ELSE get_object(from, s.dicts[d].Res)
    IN IF res = FreeObject
       THEN [s |-> s, added |-> [s.dicts[d] EXCEPT !.Res = 0]]
       ELSE [s |-> [s EXCEPT !.dicts = Append(@, s.dicts[res]),
                             !.objects = store_add(@, Len(s.dicts) + 1)],
             added |-> [s.dicts[d] EXCEPT !.Res = start]]

\* PageList._add_page_to_obj_store: the state after, and the Page returned
_add_page_to_obj_store(s, page) ==
    LET d == s.pyPages[page].data
        \* page.pop("Parent") acts on the dictionary the caller's Page holds
        s1 == [s EXCEPT !.dicts[d].Parent = 0]
        r == IF s1.pyPages[page].ref # NoRef
             THEN renumber_references(s1, page, get_next_ref(s1.objects))
             ELSE [s |-> s1, added |-> s1.dicts[d]]
        added_page == Len(r.s.dicts) + 1
        page_ref == get_next_ref(r.s.objects)
    IN [s |-> [r.s EXCEPT !.dicts = Append(@, r.added),
                          !.objects = store_add(@, added_page)],
        page |-> [data |-> added_page, ref |-> Ref(1, page_ref)]]

\* PageList._get_tree_with_index: (tree, tree_ref, tree_idx) or None (tree = 0),
\* and the index left; page["Type"] on a null object raises TypeError
NoResult(index) == [tree |-> 0, tree_ref |-> 0, tree_idx |-> 0, index |-> index, exc |-> ""]
RECURSIVE tree_with_index_from(_, _, _, _, _)
tree_with_index_from(s, root, root_ref, i, index) ==
    IF i > Len(s.dicts[root].Kids) THEN NoResult(index)
    ELSE LET page_ref == s.dicts[root].Kids[i]
             page == get_object(s.objects, page_ref)
         IN IF page = FreeObject THEN [NoResult(index) EXCEPT !.exc = "TypeError"]
            ELSE IF s.dicts[page].Type = "Pages"
            THEN LET r == tree_with_index_from(s, page, page_ref, 1, index)
                 IN IF r.exc # "" \/ r.tree # 0 THEN r
                    ELSE tree_with_index_from(s, root, root_ref, i + 1, r.index)
            ELSE IF s.dicts[page].Type = "Page"
            THEN IF index <= 0
                 THEN [tree |-> root, tree_ref |-> root_ref, tree_idx |-> i - 1,
                       index |-> index, exc |-> ""]
                 ELSE tree_with_index_from(s, root, root_ref, i + 1, index - 1)
            ELSE tree_with_index_from(s, root, root_ref, i + 1, index)
_get_tree_with_index(s, root, root_ref, index) ==
    tree_with_index_from(s, root, root_ref, 1, index)

\* while (parent := parent.get("Parent")) is not None: parent["Count"] += delta
\* a Parent that resolves to the null object raises TypeError
RECURSIVE count_ancestors(_, _, _)
count_ancestors(s, node, delta) ==
    IF s.dicts[node].Parent = 0 THEN s
    ELSE LET parent == get_object(s.objects, s.dicts[node].Parent)
         IN IF parent = FreeObject THEN Raise(s, "TypeError")
            ELSE count_ancestors([s EXCEPT !.dicts[parent].Count = @ + delta], parent, delta)

\* PageList._insert_page_into_tree
_insert_page_into_tree(s, page, tree_index, tree, tree_ref) ==
    IF page.ref = NoRef THEN Raise(s, "ValueError")
    ELSE LET s1 == [s EXCEPT !.dicts[tree].Kids = list_insert(@, tree_index, page.ref.num),
                             !.dicts[tree].Count = @ + 1]
             s2 == [s1 EXCEPT !.dicts[page.data].Parent = tree_ref]
         IN count_ancestors(s2, tree, 1)

\* PageList._delete_page_in_tree
_delete_page_in_tree(s, tree_index, tree) ==
    IF ~list_valid(s.dicts[tree].Kids, tree_index) THEN Raise(s, "IndexError")
    ELSE LET s1 == [s EXCEPT !.dicts[tree].Kids = list_pop(@, tree_index),
                             !.dicts[tree].Count = @ - 1]
         IN count_ancestors(s1, tree, -1)

\* ---------------------------------------------------- PageList, operations
\* Each operation maps the heap before the call to the heap after it; a call
\* that raises keeps what it changed before the exception.

\* Page(size=...): a new Page the caller builds, in no document
new_page(s) ==
    [s EXCEPT !.dicts = Append(@, PageDict(0, 0, Len(s.dicts) + 1)),
              !.pyPages = Append(@, [data |-> Len(s.dicts) + 1, ref |-> NoRef])]

\* PageList.insert(index, value)
insert(s, index, value) ==
    LET idx == _pos_idx_of(index, Len(s.indexed_pages))
        a == _add_page_to_obj_store(s, value)
        r == IF a.s.indexed_pages # <<>>
             THEN _get_tree_with_index(a.s, RootDict, RootRef, idx)
             ELSE NoResult(idx)
        tree == IF r.tree # 0 THEN r.tree ELSE RootDict
        tree_ref == IF r.tree # 0 THEN r.tree_ref ELSE RootRef
        tree_idx == IF r.tree # 0 THEN r.tree_idx ELSE idx
        s2 == _insert_page_into_tree(a.s, a.page, tree_idx, tree, tree_ref)
    IN IF r.exc # "" THEN Raise(a.s, r.exc)
       ELSE IF s2.exc # "" THEN s2
       ELSE [s2 EXCEPT !.indexed_pages = list_insert(@, idx, value)]

\* PageList.append(value)
append(s, value) == insert(s, Len(s.indexed_pages), value)

\* PageList.pop(index)
pop(s, index) ==
    LET idx == _pos_idx_of(index, Len(s.indexed_pages))
        r == IF s.indexed_pages # <<>>
             THEN _get_tree_with_index(s, RootDict, RootRef, idx)
             ELSE NoResult(idx)
        tree == IF r.tree # 0 THEN r.tree ELSE RootDict
        tree_idx == IF r.tree # 0 THEN r.tree_idx ELSE idx
        s1 == _delete_page_in_tree(s, tree_idx, tree)
        output == list_get(s1.indexed_pages, idx)
        s2 == [s1 EXCEPT !.indexed_pages = list_pop(@, idx)]
    IN IF r.exc # "" THEN Raise(s, r.exc)
       ELSE IF s1.exc # "" THEN s1
       ELSE IF ~list_valid(s1.indexed_pages, idx) THEN Raise(s1, "IndexError")
       ELSE IF s2.pyPages[output].ref # NoRef
       THEN [s2 EXCEPT !.objects = store_delete(@, s2.pyPages[output].ref.num),
                       !.pyPages[output].ref = NoRef]
       ELSE s2

\* PageList.__setitem__(index, value), index an integer
setitem(s, index, value) ==
    LET r == _get_tree_with_index(s, RootDict, RootRef, index)
        ref == s.pyPages[value].ref
        is_ref_not_in_doc == ref = NoRef \/ store_missing(s.objects, ref.num)
        is_object_equal == /\ ref # NoRef
                           /\ ~store_missing(s.objects, ref.num)
                           /\ s.objects[ref.num] # FreeObject
                           /\ s.objects[ref.num] = s.pyPages[value].data
        copied == is_ref_not_in_doc \/ ~is_object_equal
        a == _add_page_to_obj_store(s, value)
        \* value = self._add_page_to_obj_store(value): a new Page object
        s1 == IF copied THEN [a.s EXCEPT !.pyPages = Append(@, a.page)] ELSE s
        value1 == IF copied THEN Len(s1.pyPages) ELSE value
        replacing_ref == list_get(s1.dicts[r.tree].Kids, r.tree_idx)
        s2 == [s1 EXCEPT !.objects = store_delete(@, replacing_ref)]
        s3 == [s2 EXCEPT !.dicts[r.tree].Kids =
                             list_set(@, r.tree_idx, s2.pyPages[value1].ref.num)]
    IN IF r.exc # "" THEN Raise(s, r.exc)
       ELSE IF r.tree = 0 THEN Raise(s, "IndexError")
       ELSE IF ~list_valid(s3.indexed_pages, index) THEN Raise(s3, "IndexError")
       ELSE [s3 EXCEPT !.indexed_pages = list_set(@, index, value1)]

\* ------------------------------------------------------- PageList, actions
Now == Heap(objects, dicts, pyPages, indexed_pages, "")
\* the caller's page: 0 builds a new Page, v > 0 is a Page object held already
\* (a page of this list, a page popped earlier, the other document's page)
Values == 0..Len(pyPages)
Given(v) == IF v = 0 THEN new_page(Now) ELSE Now
Arg(v) == IF v = 0 THEN Len(pyPages) + 1 ELSE v
Indices == -MaxIdx..MaxIdx

Becomes(s, op, index, value) ==
    /\ objects' = s.objects
    /\ dicts' = s.dicts
    /\ pyPages' = s.pyPages
    /\ indexed_pages' = s.indexed_pages
    /\ last' = [op |-> op, index |-> index, value |-> value, exc |-> s.exc,
                n |-> last.n + 1]
    /\ UNCHANGED <<parseVars, secVars, fnVars>>

Insert ==
    /\ last.n < MaxOps
    /\ \E index \in Indices, v \in Values :
          Becomes(insert(Given(v), index, Arg(v)), "insert", index, Arg(v))

AppendPage ==
    /\ last.n < MaxOps
    /\ \E v \in Values :
          Becomes(append(Given(v), Arg(v)), "append", Len(indexed_pages), Arg(v))

Pop ==
    /\ last.n < MaxOps
    /\ \E index \in Indices : Becomes(pop(Now, index), "pop", index, 0)

SetItem ==
    /\ last.n < MaxOps
    /\ \E index \in Indices, v \in Values :
          Becomes(setitem(Given(v), index, Arg(v)), "setitem", index, Arg(v))

\* The parser is idle while the page list is exercised.
NoFile == [sections |-> <<>>, startxref |-> 0]
NoCall == [ref |-> <<>>, value |-> <<>>, exc |-> ""]
ParserIdle ==
    /\ file = NoFile
    /\ pc = "idle"
    /\ start_xref = 0
    /\ update_xrefs = <<>>
    /\ trailers = <<>>
    /\ xref = <<>>
    /\ trailer = <<>>
    /\ resolved = NoCall

\* No document is opened and no password is tried.
None == [op |-> "None"]
SecurityIdle ==
    /\ security_handler = None
    /\ _encryption_key = None
    /\ access_level = 2
    /\ decrypted = None
    /\ pages_read = ""

\* No function is applied.
FunctionsIdle ==
    /\ arguments = None
    /\ result = None

\* A PageList right after construction over one of the documents: the pages
\* are the flattened leaves; pyPages[1] is the other document's page.
Init ==
    /\ \E doc \in Documents :
          LET ds == OtherDicts \o doc
              objs == [n \in 1..Len(doc) |-> n + Len(OtherDicts)]
              leaves == _flatten_pages(ds, objs, RootDict)
          IN /\ dicts = ds
             /\ objects = objs
             /\ pyPages = <<OtherPage>> \o [i \in 1..Len(leaves) |-> from_dict(objs, leaves[i])]
             /\ indexed_pages = [i \in 1..Len(leaves) |-> i + 1]
    /\ last = [op |-> "init", index |-> 0, value |-> 0, exc |-> "", n |-> 0]
    /\ ParserIdle
    /\ SecurityIdle
    /\ FunctionsIdle

Next == Insert \/ AppendPage \/ Pop \/ SetItem

Spec == Init /\ [][Next]_vars

\* ------------------------------------------------ properties of the page list
\* What the page tree holds, read the way a reader of the document reads it.
Range(seq) == {seq[i] : i \in 1..Len(seq)}

\* the leaf pages under the root, depth first, as object numbers
LeavesOf(ds, objs) == _flatten_pages(ds, objs, RootDict)
Leaves == LeavesOf(dicts, objects)

\* the page-tree nodes reachable from `node`, each with the number that designates it
RECURSIVE nodes_from(_, _, _, _)
nodes_from(ds, objs, node, ref) ==
    {[dict |-> node, ref |-> ref]} \cup
    UNION { nodes_from(ds, objs, get_object(objs, ds[node].Kids[i]), ds[node].Kids[i]) :
            i \in { j \in 1..Len(ds[node].Kids) :
                      /\ get_object(objs, ds[node].Kids[j]) # FreeObject
                      /\ ds[get_object(objs, ds[node].Kids[j])].Type = "Pages" } }
TreeNodesOf(ds, objs) == nodes_from(ds, objs, RootDict, RootRef)
TreeNodes == TreeNodesOf(dicts, objects)

\* a step that is one call of `op`
Called(ops) == last'.n = last.n + 1 /\ last'.op \in ops
Returned(ops) == Called(ops) /\ last'.exc = ""

\* C1: every page-tree node's Count equals the number of leaf Page objects
\* reachable from that node by depth-first traversal of its Kids, after any
\* sequence of insert / append / pop / __setitem__ calls.
C1_CountEqualsLeaves ==
    \A nd \in TreeNodes :
        dicts[nd.dict].Count = Len(_flatten_pages(dicts, objects, nd.dict))

\* C2: after every page-list mutation, every leaf page in the page tree has a
\* Parent entry that references the node whose Kids array contains that leaf.
C2_LeafParentIsContainer ==
    \A nd \in TreeNodes :
        \A i \in 1..Len(dicts[nd.dict].Kids) :
            LET kid == get_object(objects, dicts[nd.dict].Kids[i])
            IN (kid # FreeObject /\ dicts[kid].Type = "Page")
                   => dicts[kid].Parent = nd.ref

\* C3: after insert(k, p) on a list of n pages with 0 <= k <= n (append is
\* k = n), whatever the shape of the tree, the k-th leaf in depth-first order
\* is the stored copy of p and the other n leaves keep their relative order.
C3_InsertLandsAtK ==
    [][ ( /\ Returned({"insert", "append"})
          /\ 0 <= last'.index
          /\ last'.index <= Len(indexed_pages)
          /\ Len(Leaves) = Len(indexed_pages) )
        => LET k == last'.index
               after == LeavesOf(dicts', objects')
           IN /\ Len(after) = Len(Leaves) + 1
              /\ after[k + 1] \notin Range(Leaves)
              /\ dicts'[objects'[after[k + 1]]].tag = dicts'[pyPages'[last'.value].data].tag
              /\ list_pop(after, k) = Leaves ]_vars

\* C4: pages[i] = p with -len <= i < len replaces in the tree exactly the leaf
\* at the logical position at which pages[i] afterwards returns p; all other
\* leaves and their order are unchanged.  (Stated for a page p that is not one
\* of the pages of the list.)
C4_SetItemReplacesSamePosition ==
    [][ ( /\ Returned({"setitem"})
          /\ list_valid(indexed_pages, last'.index)
          /\ last'.value \notin Range(indexed_pages)
          /\ Len(Leaves) = Len(indexed_pages) )
        => LET j == list_pos(indexed_pages, last'.index)
               after == LeavesOf(dicts', objects')
           IN /\ Len(after) = Len(Leaves)
              /\ pyPages'[indexed_pages'[j]].ref = Ref(1, after[j])
              /\ \A m \in 1..Len(Leaves) : m # j => after[m] = Leaves[m] ]_vars

\* the object that holds, in this document, the page pop(index) takes out of a
\* list whose pages are the leaves of the tree, position by position
PoppedPosition == list_pos(indexed_pages, _pos_idx_of(last'.index, Len(indexed_pages)))
PopOfListedPage ==
    /\ Returned({"pop"})
    /\ Len(Leaves) = Len(indexed_pages)
    /\ list_valid(indexed_pages, last'.index)

\* C5: after a pop(i) that succeeds, the popped page's reference is absent from
\* its node's Kids array and the object that held that page in this document is
\* no longer in the object store, for parsed and for added pages alike.
C5_PopDeletesHeldObject ==
    [][ PopOfListedPage
        => LET held == Leaves[PoppedPosition]
           IN /\ \A nd \in TreeNodesOf(dicts', objects') : held \notin Range(dicts'[nd.dict].Kids)
              /\ get_object(objects', held) = FreeObject ]_vars

\* C6: pop(i) deletes from the object store no object other than the one that
\* held the popped page: every other indirect object is still present and
\* unchanged afterwards (a page-tree node changes in Kids and Count only).
C6_PopKeepsOtherObjects ==
    [][ PopOfListedPage
        => LET held == Leaves[PoppedPosition]
           IN \A m \in 1..Len(objects) :
                 m # held =>
                    /\ objects'[m] = objects[m]
                    /\ objects[m] # FreeObject =>
                          \/ dicts'[objects[m]] = dicts[objects[m]]
                          \/ /\ dicts[objects[m]].Type = "Pages"
                             /\ [dicts'[objects[m]] EXCEPT !.Kids = <<>>, !.Count = 0]
                                  = [dicts[objects[m]] EXCEPT !.Kids = <<>>, !.Count = 0] ]_vars

\* C7: pop(i) raises IndexError when the page list is empty or when i does not
\* designate an existing page (i >= len or i < -len).
C7_PopOutOfRangeRaises ==
    [][ ( /\ Called({"pop"})
          /\ \/ indexed_pages = <<>>
             \/ last'.index >= Len(indexed_pages)
             \/ last'.index < -Len(indexed_pages) )
        => last'.exc = "IndexError" ]_vars

\* the pages of the list are the leaves of the tree, position by position:
\* page i of the list is the page whose stored copy leaf i is
ListIsLeavesOf(ds, objs, pgs, idx) ==
    LET leaves == LeavesOf(ds, objs)
    IN /\ Len(leaves) = Len(idx)
       /\ \A i \in 1..Len(idx) : ds[objs[leaves[i]]].tag = ds[pgs[idx[i]].data].tag
Mutations == {"insert", "append", "pop", "setitem"}

\* C25: on one PageList, after any sequence of successful insert / append /
\* pop / __setitem__ calls, the pages of the list (length and order) are the
\* leaf pages of the page tree in depth-first order: a successful call on a
\* list that corresponds to the tree gives a list that corresponds to it.
C25_ListIsLeaves ==
    [][ ( /\ Returned(Mutations)
          /\ ListIsLeavesOf(dicts, objects, pyPages, indexed_pages) )
        => ListIsLeavesOf(dicts', objects', pyPages', indexed_pages') ]_vars

\* C26: a pop(i) that raises IndexError leaves the document unchanged: the
\* Kids arrays, every Count, the object store and the list of pages.
C26_FailedPopChangesNothing ==
    [][ (Called({"pop"}) /\ last'.exc = "IndexError")
        => /\ dicts' = dicts
           /\ objects' = objects
           /\ pyPages' = pyPages
           /\ indexed_pages' = indexed_pages ]_vars

\* every reference of every Kids array designates an object the store holds
KidsArePresentIn(ds, objs) ==
    \A nd \in TreeNodesOf(ds, objs) :
        \A i \in 1..Len(ds[nd.dict].Kids) : get_object(objs, ds[nd.dict].Kids[i]) # FreeObject

\* C27: after any sequence of successful page-list mutations every reference
\* in every Kids array designates an object still present in the object store,
\* pages[i] = pages[j] with pages of the same document included.
C27_KidsArePresent ==
    [][ (Returned(Mutations) /\ KidsArePresentIn(dicts, objects))
        => KidsArePresentIn(dicts', objects') ]_vars

\* C28: inserting, appending or assigning a page of another document, and
\* popping it later, leaves the other document unchanged: its dictionaries
\* (the page's Parent included) and the indirect reference of its Page object.
C28_OtherDocumentUnchanged ==
    /\ SubSeq(dicts, 1, Len(OtherDicts)) = OtherDicts
    /\ pyPages[1] = OtherPage

\* ===================================================== PdfParser.parse
\* ------------------------------------------------- cross-reference entries
FreeXRefEntry(next_free_object, gen_if_used_again) ==
    [kind |-> "free", first |-> next_free_object, second |-> gen_if_used_again]
InUseXRefEntry(offset, generation) ==
    [kind |-> "inuse", first |-> offset, second |-> generation]
CompressedXRefEntry(objstm_number, index_within) ==
    [kind |-> "compressed", first |-> objstm_number, second |-> index_within]
PdfXRefSubsection(first_obj_number, entries) ==
    [first_obj_number |-> first_obj_number, count |-> Len(entries), entries |-> entries]

\* ------------------------------------------------------------ input files
\* A file is the sequence of its xref sections (the index of a section stands
\* for its byte offset) and the offset its last startxref names.  Each section
\* is what parse_xref_and_trailer reads there: a table of subsections and a
\* trailer with Size and Prev (0: no Prev key).  The files are written the way
\* a conforming writer writes them: an original section for objects
\* 0..BaseSize-1 and one incremental update per edit, each update listing the
\* entries it changes and pointing to the section before it.
MaxUpdates == 2     \* incremental updates per file
BaseSize == 3       \* objects of the original section, object 0 included
MaxFrames == 4      \* frames of parse() the interpreter allows (its recursion limit)

Forms == {"table", "stream"}
Edits == {[op |-> "add", n |-> 0], [op |-> "addc", n |-> 0], [op |-> "reuse", n |-> 0]}
            \cup {[op |-> o, n |-> n] : o \in {"replace", "free"},
                                        n \in 1..(BaseSize + MaxUpdates - 1)}
Scripts == UNION {[1..len -> Edits] : len \in 0..MaxUpdates}

\* what the writer knows of object n: in use or free, its generation, and the
\* next free object when it is on the free list
Written(inuse, gen, next) == [inuse |-> inuse, gen |-> gen, next |-> next]

BaseSection(form) ==
    [form |-> form,
     table |-> << PdfXRefSubsection(0,
                    <<FreeXRefEntry(0, 65535)>> \o
                    [n \in 1..(BaseSize - 1) |->
                        IF form = "stream" /\ n > 1
                        THEN CompressedXRefEntry(1, n - 2)
                        ELSE InUseXRefEntry(100 + n, 0)]) >>,
     trailer |-> [Size |-> BaseSize, Prev |-> 0]]

BaseWriter(form) ==
    [form |-> form, head |-> 0,
     objs |-> [n \in 1..(BaseSize - 1) |-> Written(TRUE, 0, 0)],
     sections |-> <<BaseSection(form)>>, ok |-> TRUE]

\* the writer after one more incremental update; ok is FALSE when the edit does
\* not apply to the document (an object that is not there, or not in that state)
Update(w, edit) ==
    LET at == Len(w.sections) + 1
        size == Len(w.objs) + 1
        n == edit.n
        tr(sz) == [Size |-> sz, Prev |-> at - 1]
        sec(table, sz) == [form |-> w.form, table |-> table, trailer |-> tr(sz)]
    IN IF edit.op = "add"
       THEN [w EXCEPT !.objs = Append(@, Written(TRUE, 0, 0)),
                      !.sections = Append(@, sec(
                          <<PdfXRefSubsection(size, <<InUseXRefEntry(100 * at + size, 0)>>)>>,
                          size + 1))]
       ELSE IF edit.op = "addc"
       THEN IF w.form # "stream" THEN [w EXCEPT !.ok = FALSE]
            ELSE [w EXCEPT !.objs = Append(@, Written(TRUE, 0, 0)),
                           !.sections = Append(@, sec(
                               <<PdfXRefSubsection(size, <<CompressedXRefEntry(1, at)>>)>>,
                               size + 1))]
       ELSE IF edit.op = "replace"
       THEN IF n >= size \/ ~w.objs[n].inuse THEN [w EXCEPT !.ok = FALSE]
            ELSE [w EXCEPT !.sections = Append(@, sec(
                               <<PdfXRefSubsection(n,
                                    <<InUseXRefEntry(100 * at + n, w.objs[n].gen)>>)>>,
                               size))]
       ELSE IF edit.op = "free"
       THEN IF n >= size \/ ~w.objs[n].inuse THEN [w EXCEPT !.ok = FALSE]
            ELSE [w EXCEPT !.head = n,
                           !.objs[n] = Written(FALSE, w.objs[n].gen + 1, w.head),
                           !.sections = Append(@, sec(
                               << PdfXRefSubsection(0, <<FreeXRefEntry(n, 65535)>>),
                                  PdfXRefSubsection(n,
                                    <<FreeXRefEntry(w.head, w.objs[n].gen + 1)>>) >>,
                               size))]
       ELSE \* reuse: the head of the free list comes back at its new generation
            IF w.head = 0 THEN [w EXCEPT !.ok = FALSE]
            ELSE [w EXCEPT !.head = w.objs[w.head].next,
                           !.objs[w.head] = Written(TRUE, w.objs[w.head].gen, 0),
                           !.sections = Append(@, sec(
                               << PdfXRefSubsection(0,
                                    <<FreeXRefEntry(w.objs[w.head].next, 65535)>>),
                                  PdfXRefSubsection(w.head,
                                    <<InUseXRefEntry(100 * at + w.head, w.objs[w.head].gen)>>) >>,
                               size))]

RECURSIVE Write(_, _, _)
Write(w, script, i) ==
    IF i > Len(script) \/ ~w.ok THEN w ELSE Write(Update(w, script[i]), script, i + 1)

Files ==
    { [sections |-> w.sections, startxref |-> Len(w.sections)] :
        w \in { v \in { Write(BaseWriter(form), script, 1) : form \in Forms, script \in Scripts } :
                  v.ok } }

\* --------------------------------------------------------------- the parser
\* the generation under which get_merged_xrefs files an entry
entry_gen(entry) ==
    IF entry.kind = "free" THEN entry.second
    ELSE IF entry.kind = "inuse" THEN entry.second
    ELSE 0

\* for idx, entry in enumerate(section.entries, section.first_obj_number):
\*     entry_map[(idx, gen)] = entry
RECURSIVE merge_entries(_, _, _)
merge_entries(entry_map, section, i) ==
    IF i > Len(section.entries) THEN entry_map
    ELSE merge_entries(
            (<<section.first_obj_number + i - 1, entry_gen(section.entries[i])>>
                 :> section.entries[i]) @@ entry_map,
            section, i + 1)

\* for section in xref.sections
RECURSIVE merge_sections(_, _, _)
merge_sections(entry_map, table, i) ==
    IF i > Len(table) THEN entry_map
    ELSE merge_sections(merge_entries(entry_map, table[i], 1), table, i + 1)

\* for xref in tables, in the order given
RECURSIVE merge_tables(_, _, _)
merge_tables(entry_map, tables, i) ==
    IF i > Len(tables) THEN entry_map
    ELSE merge_tables(merge_sections(entry_map, tables[i], 1), tables, i + 1)

Reverse(seq) == [i \in 1..Len(seq) |-> seq[Len(seq) + 1 - i]]

\* a merge that walks update_xrefs as stored, most recent table first
get_merged_xrefs_newest_first(tables) == merge_tables(<<>>, tables, 1)

\* PdfParser.get_merged_xrefs: from the least recent table to the most recent
get_merged_xrefs(tables) == merge_tables(<<>>, Reverse(tables), 1)

\* the trailer of the section parsed last, the original one
effective_trailer_oldest(trs) == trs[Len(trs)]

\* self.trailer = self._trailers[0]
effective_trailer(trs) == trs[1]

\* PdfParser.lookup_xref_start: the offset after the last startxref
lookup_xref_start(f) == f.startxref

\* PdfParser.parse(), first call: start_xref is None
ParseStart ==
    /\ pc = "start"
    /\ start_xref' = lookup_xref_start(file)
    /\ pc' = "section"
    /\ UNCHANGED <<file, update_xrefs, trailers, xref, trailer, resolved>>
    /\ UNCHANGED <<pageVars, secVars, fnVars>>

\* one frame of PdfParser.parse(start_xref) whose trailer holds Prev: the
\* section is recorded and parse(trailer["Prev"]) is entered
ParsePrev ==
    /\ pc = "section"
    /\ start_xref \in 1..Len(file.sections)
    /\ file.sections[start_xref].trailer.Prev # 0
    /\ Len(update_xrefs) + 1 < MaxFrames
    /\ update_xrefs' = Append(update_xrefs, file.sections[start_xref].table)
    /\ trailers' = Append(trailers, file.sections[start_xref].trailer)
    /\ start_xref' = file.sections[start_xref].trailer.Prev
    /\ UNCHANGED <<file, pc, xref, trailer, resolved>>
    /\ UNCHANGED <<pageVars, secVars, fnVars>>

\* the frame at the recursion limit whose trailer holds Prev: the call
\* parse(trailer["Prev"]) raises RecursionError, which no frame catches
ParseRecursionError ==
    /\ pc = "section"
    /\ start_xref \in 1..Len(file.sections)
    /\ file.sections[start_xref].trailer.Prev # 0
    /\ Len(update_xrefs) + 1 = MaxFrames
    /\ update_xrefs' = Append(update_xrefs, file.sections[start_xref].table)
    /\ trailers' = Append(trailers, file.sections[start_xref].trailer)
    /\ pc' = "RecursionError"
    /\ UNCHANGED <<file, start_xref, xref, trailer, resolved>>
    /\ UNCHANGED <<pageVars, secVars, fnVars>>

\* the innermost frame: no Prev, so the tables are merged and the effective
\* trailer is set; the frames then return without touching these fields
ParseLast ==
    /\ pc = "section"
    /\ start_xref \in 1..Len(file.sections)
    /\ file.sections[start_xref].trailer.Prev = 0
    /\ update_xrefs' = Append(update_xrefs, file.sections[start_xref].table)
    /\ trailers' = Append(trailers, file.sections[start_xref].trailer)
    /\ xref' = get_merged_xrefs(update_xrefs')
    /\ trailer' = effective_trailer(trailers')
    /\ pc' = "done"
    /\ UNCHANGED <<file, start_xref, resolved>>
    /\ UNCHANGED <<pageVars, secVars, fnVars>>

\* PdfNull()
PdfNull == [kind |-> "null", at |-> 0, index |-> 0]
\* parse_indirect_object(entry): the object read at the entry's offset
parse_indirect_object(entry) == [kind |-> "object", at |-> entry.first, index |-> 0]
\* the token at position index_within of the object stream read at objstm
token_of(objstm, index_within) == [kind |-> "token", at |-> objstm.at, index |-> index_within]
Returns(reference, value) == [ref |-> reference, value |-> value, exc |-> ""]
Raises(reference, exc) == [ref |-> reference, value |-> <<>>, exc |-> exc]

\* a resolve that takes every entry found for an object in use
resolve_reference_any_entry(entry_map, reference) ==
    IF reference \notin DOMAIN entry_map THEN Returns(reference, PdfNull)
    ELSE Returns(reference, parse_indirect_object(entry_map[reference]))

\* PdfParser.resolve_reference((n, g)): xref.get gives None for a missing key;
\* a Free entry passes both isinstance tests and reaches the final return
resolve_reference(entry_map, reference) ==
    IF reference \notin DOMAIN entry_map THEN Returns(reference, PdfNull)
    ELSE LET root_entry == entry_map[reference]
         IN IF root_entry.kind = "inuse"
            THEN Returns(reference, parse_indirect_object(root_entry))
            ELSE IF root_entry.kind = "compressed"
            THEN IF <<root_entry.first, 0>> \notin DOMAIN entry_map
                 THEN Raises(reference, "KeyError")
                 ELSE IF entry_map[<<root_entry.first, 0>>].kind # "inuse"
                 THEN Raises(reference, "AssertionError")
                 ELSE Returns(reference,
                        token_of(parse_indirect_object(entry_map[<<root_entry.first, 0>>]),
                                 root_entry.second))
            ELSE Returns(reference, PdfNull)

\* the identities a caller asks for: object numbers up to one past the largest
\* a file can hold, generations 0..2 and that of the head of the free list
Generations == {0, 1, 2, 65535}
References == (0..(BaseSize + MaxUpdates)) \X Generations

\* PdfParser.resolve_reference on a parsed document
Resolve ==
    /\ pc = "done"
    /\ \E reference \in References : resolved' = resolve_reference(xref, reference)
    /\ UNCHANGED <<file, pc, start_xref, update_xrefs, trailers, xref, trailer>>
    /\ UNCHANGED <<pageVars, secVars, fnVars>>

\* A parser right after construction over one of the files; no page list.
InitParse ==
    /\ file \in Files
    /\ pc = "start"
    /\ start_xref = 0
    /\ update_xrefs = <<>>
    /\ trailers = <<>>
    /\ xref = <<>>
    /\ trailer = <<>>
    /\ resolved = NoCall
    /\ objects = <<>>
    /\ dicts = <<>>
    /\ pyPages = <<>>
    /\ indexed_pages = <<>>
    /\ last = [op |-> "init", index |-> 0, value |-> 0, exc |-> "", n |-> 0]
    /\ SecurityIdle
    /\ FunctionsIdle

NextParse == ParseStart \/ ParsePrev \/ ParseLast \/ Resolve

SpecParse == InitParse /\ [][NextParse]_vars

\* Files whose Prev links were not written by a PDF writer: any one trailer of
\* a file names any section of the file as its Prev, itself and later ones
\* included.
CraftedFiles ==
    UNION { { [f EXCEPT !.sections[s].trailer.Prev = prev] :
                s \in 1..Len(f.sections), prev \in 0..Len(f.sections) } : f \in Files }
InitParseAny ==
    /\ file \in CraftedFiles
    /\ pc = "start"
    /\ start_xref = 0
    /\ update_xrefs = <<>>
    /\ trailers = <<>>
    /\ xref = <<>>
    /\ trailer = <<>>
    /\ resolved = NoCall
    /\ objects = <<>>
    /\ dicts = <<>>
    /\ pyPages = <<>>
    /\ indexed_pages = <<>>
    /\ last = [op |-> "init", index |-> 0, value |-> 0, exc |-> "", n |-> 0]
    /\ SecurityIdle
    /\ FunctionsIdle

NextParseAny == ParseStart \/ ParsePrev \/ ParseRecursionError \/ ParseLast \/ Resolve

SpecParseAny == InitParseAny /\ [][NextParseAny]_vars

\* ------------------------------------------------- properties of the parser
\* the sections of the file from the one startxref names along the Prev links
RECURSIVE chain_from(_, _)
chain_from(f, at) ==
    IF at = 0 THEN <<>> ELSE <<at>> \o chain_from(f, f.sections[at].trailer.Prev)
Chain == chain_from(file, file.startxref)

\* what a table lists: each entry with its key (object number, generation)
Listed(table) ==
    UNION { { [key |-> <<table[s].first_obj_number + i - 1, entry_gen(table[s].entries[i])>>,
               entry |-> table[s].entries[i]] : i \in 1..Len(table[s].entries) } :
            s \in 1..Len(table) }
KeysOf(table) == { l.key : l \in Listed(table) }
TableAt(i) == file.sections[Chain[i]].table
\* the position in the chain (1: most recent) of the most recent section listing k
MostRecent(k) ==
    CHOOSE i \in 1..Len(Chain) :
        /\ k \in KeysOf(TableAt(i))
        /\ \A j \in 1..(i - 1) : k \notin KeysOf(TableAt(j))

\* C8: in the merged mapping built by parse(), a key that occurs in several
\* sections of the Prev chain maps to the entry of the most recent section
\* listing it, a key of one section maps to that section's entry, and the
\* mapping has no other key.
C8_MergedIsMostRecent ==
    pc = "done" =>
        /\ DOMAIN xref = UNION { KeysOf(TableAt(i)) : i \in 1..Len(Chain) }
        /\ \A k \in DOMAIN xref :
              [key |-> k, entry |-> xref[k]] \in Listed(TableAt(MostRecent(k)))

\* C8 witness: a parsed file in which some key is listed by two sections with
\* different entries
C8_Witness ==
    /\ pc = "done"
    /\ \E i, j \in 1..Len(Chain) :
          /\ i < j
          /\ \E a \in Listed(TableAt(i)), b \in Listed(TableAt(j)) :
                a.key = b.key /\ a.entry # b.entry

\* C9: after parse() of a conforming file, with any number of incremental
\* updates that add, replace or free objects, the number of entries of the
\* merged xref equals Size of the effective trailer.
C9_MergedLenIsSize ==
    pc = "done" => Cardinality(DOMAIN xref) = trailer.Size

\* C10: for a file whose sections form a Prev chain of N sections from the
\* offset the final startxref names, parse() records exactly N updates, most
\* recent first, and the effective trailer is that of the section startxref
\* points to.
C10_UpdatesInChainOrder ==
    pc = "done" =>
        /\ Len(update_xrefs) = Len(Chain)
        /\ \A i \in 1..Len(Chain) : update_xrefs[i] = TableAt(i)
        /\ trailer = file.sections[file.startxref].trailer

\* C10 witness: a parsed file of three sections
C10_Witness ==
    /\ pc = "done"
    /\ Len(Chain) = 3
    /\ Len(update_xrefs) = 3

\* C11: resolve_reference((n, g)) returns the null object and raises nothing
\* whenever the merged xref has no entry for (n, g) or the entry it has for
\* (n, g) is a Free entry.
C11_MissingOrFreeIsNull ==
    (resolved.ref # <<>> /\ (resolved.ref \notin DOMAIN xref \/ xref[resolved.ref].kind = "free"))
        => resolved.exc = "" /\ resolved.value = PdfNull

\* C11 witness: the entry of a freed object of an updated file was resolved
C11_Witness ==
    /\ Len(Chain) > 1
    /\ resolved.ref \in DOMAIN xref
    /\ xref[resolved.ref].kind = "free"
    /\ resolved.ref[1] # 0
    /\ resolved.value = PdfNull

\* ========================================================= pad_password
\* Byte strings are sequences of integers 0..255.
PASSWORD_PADDING ==
    << 40, 191, 78, 94, 78, 117, 138, 65, 100, 0, 78, 86, 255, 250, 1, 8,
       46, 46, 0, 182, 208, 104, 62, 128, 47, 12, 169, 254, 100, 83, 105, 122 >>

\* seq[:k]: a negative k counts from the end, and the slice never raises
py_prefix(seq, k) ==
    IF k >= 0 THEN SubSeq(seq, 1, Min(k, Len(seq)))
    ELSE SubSeq(seq, 1, Max(0, Len(seq) + k))

\* password[:32] + PASSWORD_PADDING[: 32 - len(password)]
pad_password(password) ==
    py_prefix(password, 32) \o py_prefix(PASSWORD_PADDING, 32 - Len(password))

MaxPasswordLen == 34    \* passwords of 0..MaxPasswordLen bytes
Fills == {1, 7}
\* the byte strings given to pad_password: every length, two contents each
Passwords ==
    { [i \in 1..n |-> (65 + i * k) % 256] : n \in 0..MaxPasswordLen, k \in Fills }

PadPassword ==
    /\ result = None
    /\ result' = [value |-> pad_password(arguments.password)]
    /\ UNCHANGED <<arguments, pageVars, parseVars, secVars>>

InitPad ==
    /\ arguments \in { [password |-> p] : p \in Passwords }
    /\ result = None
    /\ objects = <<>>
    /\ dicts = <<>>
    /\ pyPages = <<>>
    /\ indexed_pages = <<>>
    /\ last = [op |-> "init", index |-> 0, value |-> 0, exc |-> "", n |-> 0]
    /\ ParserIdle
    /\ SecurityIdle

NextPad == PadPassword

SpecPad == InitPad /\ [][NextPad]_vars

\* C14: pad_password(p) is exactly 32 bytes long for every byte string p: the
\* first 32 bytes of p when p is longer than 32 bytes, otherwise p followed by
\* the leading bytes of the padding pattern.
C14_PadIs32Bytes ==
    result # None =>
        LET p == arguments.password
        IN /\ Len(result.value) = 32
           /\ result.value =
                IF Len(p) > 32 THEN SubSeq(p, 1, 32)
                ELSE p \o SubSeq(PASSWORD_PADDING, 1, 32 - Len(p))

\* ============================================ StandardSecurityHandler
\* MD5 and ARC4 are taken as perfect: a digest or a ciphertext is the term
\* that records how it was made, and two of them are equal only when they were
\* made the same way.  A byte string is a record: either known bytes or such a
\* term, with its length n.
Bytes(seq) == [op |-> "bytes", n |-> Len(seq), data |-> seq, arg |-> <<>>]

\* x + y
cat(x, y) ==
    IF y.n = 0 THEN x
    ELSE IF x.n = 0 THEN y
    ELSE IF x.op = "bytes" /\ y.op = "bytes" THEN Bytes(x.data \o y.data)
    ELSE [op |-> "cat", n |-> x.n + y.n, data |-> <<>>, arg |-> <<x, y>>]

\* x[:k] for k >= 0
RECURSIVE slice(_, _)
slice(x, k) ==
    IF k >= x.n THEN x
    ELSE IF x.op = "bytes" THEN Bytes(SubSeq(x.data, 1, k))
    ELSE IF x.op = "cat"
    THEN IF k <= x.arg[1].n THEN slice(x.arg[1], k)
         ELSE cat(x.arg[1], slice(x.arg[2], k - x.arg[1].n))
    ELSE [op |-> "slice", n |-> k, data |-> <<>>, arg |-> <<x>>]

\* md5(part1 + part2 + ...).digest(): 16 bytes.  data is <<rounds, length>>:
\* the digest was then hashed again `rounds` times, cut to `length` each time.
md5(parts) == [op |-> "md5", n |-> 16, data |-> <<0, 0>>, arg |-> parts]


\* arc4(bytearray(b ^ i for b in key)).encrypt(x), the same as .decrypt(x): the
\* keystream of key ^ i is XORed in both directions, so applying it twice
\* gives x back.  data lists the counters i of the layers put on arg[2] with
\* the key arg[1], innermost first (b ^ 0 is b).
arc4_xor(key, i, x) ==
    IF x.op = "arc4" /\ x.arg[1] = key
    THEN IF x.data[Len(x.data)] = i
         THEN IF Len(x.data) = 1 THEN x.arg[2]
              ELSE [x EXCEPT !.data = SubSeq(@, 1, Len(@) - 1)]
         ELSE [x EXCEPT !.data = Append(@, i)]
    ELSE [op |-> "arc4", n |-> x.n, data |-> <<i>>, arg |-> <<key, x>>]

\* arc4(key).encrypt(x) and arc4(key).decrypt(x)
arc4(key, x) == arc4_xor(key, 0, x)

\* pad_password on any byte string
pad(password) ==
    cat(slice(password, 32), Bytes(py_prefix(PASSWORD_PADDING, 32 - password.n)))

\* perms.to_bytes(4, "little") of (P + 2**32) % 2**32, for a 32-bit signed P:
\* the bytes of P modulo 2**32, taken with floor division so that no
\* intermediate value leaves 32 bits
p_bytes(P) ==
    Bytes(<< P % 256, (P \div 256) % 256,
             (P \div 65536) % 256, (P \div 16777216) % 256 >>)

\* StandardSecurityHandler.key_length
key_length(encryption) == encryption.Length \div 8

\* for _ in range(times): digest = md5(digest[:length]), on a digest that
\* md5(parts) has just made: the rounds are counted in the term
md5_rounds(digest, length, times) ==
    [digest EXCEPT !.data = <<digest.data[1] + times, length>>]

\* for i in range(from, to + 1): cipher = arc4(key ^ i).encrypt(cipher)
\* (nothing is left to encrypt in an empty string)
RECURSIVE arc4_up(_, _, _, _)
arc4_up(key, cipher, from, to) ==
    IF cipher.n = 0 \/ from > to THEN cipher
    ELSE arc4_up(key, arc4_xor(key, from, cipher), from + 1, to)

\* for i in range(from, -1, -1): cipher = arc4(key ^ i).encrypt(cipher)
RECURSIVE arc4_down(_, _, _)
arc4_down(key, cipher, from) ==
    IF cipher.n = 0 \/ from < 0 THEN cipher
    ELSE arc4_down(key, arc4_xor(key, from, cipher), from - 1)

\* StandardSecurityHandler.compute_encryption_key (Algorithm 2)
compute_encryption_key(handler, password) ==
    LET e == handler.encryption
        parts == << pad(password), e.O, p_bytes(e.P), handler.ids[1] >>
                   \o (IF e.R >= 4 /\ ~e.EncryptMetadata
                       THEN <<Bytes(<<255, 255, 255, 255>>)>> ELSE <<>>)
        psw_hash == IF e.R >= 3
                    THEN md5_rounds(md5(parts), key_length(e), 50)
                    ELSE md5(parts)
    IN slice(psw_hash, key_length(e))

\* StandardSecurityHandler.compute_owner_password (Algorithm 3)
compute_owner_password(handler, owner_password, user_password) ==
    LET e == handler.encryption
        padded == pad(IF owner_password.n # 0 THEN owner_password ELSE user_password)
        owner_digest == IF e.R >= 3 THEN md5_rounds(md5(<<padded>>), 16, 50)
                        ELSE md5(<<padded>>)
        owner_cipher == slice(owner_digest, key_length(e))
        owner_crypt == arc4(owner_cipher, pad(user_password))
    IN IF e.R >= 3 THEN arc4_up(owner_cipher, owner_crypt, 1, 19) ELSE owner_crypt

\* StandardSecurityHandler.compute_user_password (Algorithms 4 and 5)
compute_user_password(handler, password) ==
    LET e == handler.encryption
        encr_key == compute_encryption_key(handler, password)
    IN IF e.R = 2 THEN arc4(encr_key, Bytes(PASSWORD_PADDING))
       ELSE pad(arc4_up(encr_key,
                        arc4(encr_key, md5(<<cat(Bytes(PASSWORD_PADDING), handler.ids[1])>>)),
                        1, 19))

\* StandardSecurityHandler.authenticate_user_password (Algorithm 6)
authenticate_user_password(handler, password) ==
    LET e == handler.encryption
        encryption_key == compute_encryption_key(handler, password)
        stored_password == e.U
        user_cipher ==
            IF e.R = 2 THEN arc4(encryption_key, Bytes(PASSWORD_PADDING))
            ELSE arc4_up(encryption_key,
                         arc4(encryption_key,
                              md5(<<cat(Bytes(PASSWORD_PADDING), handler.ids[1])>>)),
                         1, 19)
        same == IF e.R = 2 THEN stored_password = user_cipher
                ELSE slice(stored_password, 16) = slice(user_cipher, 16)
    IN IF same THEN [key |-> encryption_key, ok |-> TRUE]
       ELSE [key |-> Bytes(<<>>), ok |-> FALSE]

\* StandardSecurityHandler.authenticate_owner_password (Algorithm 7)
authenticate_owner_password(handler, password) ==
    LET e == handler.encryption
        padded_password == pad(password)
        digest == IF e.R >= 3 THEN md5_rounds(md5(<<padded_password>>), 16, 50)
                  ELSE md5(<<padded_password>>)
        cipher_key == slice(digest, key_length(e))
        user_cipher == IF e.R = 2 THEN arc4(cipher_key, e.O)
                       ELSE arc4_down(cipher_key, e.O, 19)
    IN authenticate_user_password(handler, user_cipher)

\* ------------------------------------------------ decrypt and the document
\* PermsAcquired
NONE == 0
USER == 1
OWNER == 2

\* StandardSecurityHandler(encryption, ids)
StandardSecurityHandler(encryption, ids) == [encryption |-> encryption, ids |-> ids]

\* a decrypt that tries the user password before the owner password
decrypt_user_first(handler, key, password) ==
    IF handler = None THEN [value |-> OWNER, key |-> key]
    ELSE LET user == authenticate_user_password(handler, Bytes(password))
             owner == authenticate_owner_password(handler, Bytes(password))
         IN IF user.ok THEN [value |-> USER, key |-> user.key]
            ELSE IF owner.ok THEN [value |-> OWNER, key |-> owner.key]
            ELSE [value |-> NONE, key |-> key]

\* PdfParser.decrypt(password): the value returned and the key the parser holds
\* after the call
decrypt(handler, key, password) ==
    IF handler = None THEN [value |-> OWNER, key |-> key]
    ELSE LET owner == authenticate_owner_password(handler, Bytes(password))
             user == authenticate_user_password(handler, Bytes(password))
         IN IF owner.ok THEN [value |-> OWNER, key |-> owner.key]
            ELSE IF user.ok THEN [value |-> USER, key |-> user.key]
            ELSE [value |-> NONE, key |-> key]

\* PdfDocument.__init__ that leaves the access level at its default
document_init_no_password(handler, has_encryption) ==
    [value |-> OWNER, key |-> None]

\* PdfDocument.__init__ after parse(): access_level is OWNER, and the result of
\* decrypt("") when the trailer has an Encrypt entry
document_init(handler, has_encryption) ==
    IF has_encryption THEN decrypt(handler, None, <<>>)
    ELSE [value |-> OWNER, key |-> None]

\* ------------------------------------------------------------- the documents
\* What a document was encrypted with: revision, key length, EncryptMetadata
\* and the two passwords ("" is no password).
Revisions ==
    { [R |-> 2, Length |-> 40, EncryptMetadata |-> TRUE],
      [R |-> 3, Length |-> 128, EncryptMetadata |-> TRUE],
      [R |-> 4, Length |-> 128, EncryptMetadata |-> TRUE],
      [R |-> 4, Length |-> 128, EncryptMetadata |-> FALSE] }
OwnerPasswords == { <<>>, <<111>>, <<117>> }      \* "", "o", "u"
UserPasswords == { <<>>, <<117>> }                \* "", "u"
TriedPasswords == { <<>>, <<111>>, <<117>>, <<120>> }   \* "", "o", "u", "x"
Encryptions ==
    { [R |-> r.R, Length |-> r.Length, EncryptMetadata |-> r.EncryptMetadata,
       owner_password |-> o, user_password |-> u] :
        r \in Revisions, o \in OwnerPasswords, u \in UserPasswords }
FileID == Bytes(<<1, 2, 3, 4>>)

\* the Encrypt dictionary a writer makes: O first, then U, which depends on O
Encrypt(made) ==
    LET blank == [R |-> made.R, Length |-> made.Length,
                  EncryptMetadata |-> made.EncryptMetadata, P |-> -44,
                  O |-> Bytes(<<>>), U |-> Bytes(<<>>)]
        withO == [blank EXCEPT !.O = compute_owner_password(
                      StandardSecurityHandler(blank, <<FileID>>),
                      Bytes(made.owner_password), Bytes(made.user_password))]
    IN [withO EXCEPT !.U = compute_user_password(
                      StandardSecurityHandler(withO, <<FileID>>),
                      Bytes(made.user_password))]

\* PdfDocument.decrypt(password) with any password: PdfParser.decrypt, whose
\* value becomes the access level; what pages gave before the call is forgotten
Decrypt ==
    /\ \E password \in TriedPasswords :
          LET r == decrypt(security_handler, _encryption_key, password)
          IN /\ decrypted' = [password |-> password, value |-> r.value]
             /\ _encryption_key' = r.key
             /\ access_level' = r.value
    /\ pages_read' = ""
    /\ UNCHANGED security_handler
    /\ UNCHANGED <<pageVars, parseVars, fnVars>>

\* PdfDocument.pages
ReadPages ==
    /\ pages_read' = IF access_level = NONE THEN "PermissionError" ELSE "PageList"
    /\ UNCHANGED <<security_handler, _encryption_key, access_level, decrypted>>
    /\ UNCHANGED <<pageVars, parseVars, fnVars>>

\* A document right after PdfDocument(data): without encryption, with an
\* Encrypt entry of another filter (no security handler), or with the standard
\* security handler.
Opened(handler, filter) ==
    /\ file = NoFile
    /\ pc = "done"
    /\ start_xref = 0
    /\ update_xrefs = <<>>
    /\ trailers = <<>>
    /\ xref = <<>>
    /\ trailer = [Size |-> 1, Prev |-> 0, Encrypt |-> filter]
    /\ resolved = NoCall
    /\ security_handler = handler
    /\ LET r == document_init(handler, filter # "")
       IN /\ access_level = r.value
          /\ _encryption_key = r.key
    /\ decrypted = None
    /\ pages_read = ""

InitSec ==
    /\ \/ arguments = None /\ (Opened(None, "") \/ Opened(None, "Other"))
       \/ /\ arguments \in Encryptions
          /\ Opened(StandardSecurityHandler(Encrypt(arguments), <<FileID>>), "Standard")
    /\ result = None
    /\ objects = <<>>
    /\ dicts = <<>>
    /\ pyPages = <<>>
    /\ indexed_pages = <<>>
    /\ last = [op |-> "init", index |-> 0, value |-> 0, exc |-> "", n |-> 0]

NextSec == Decrypt \/ ReadPages

SpecSec == InitSec /\ [][NextSec]_vars

\* the password authenticates as the owner password: padded, it is the owner
\* password of the document, or its user password when it has no owner password
IsOwnerPassword(password) ==
    pad_password(password) =
        pad_password(IF arguments.owner_password # <<>> THEN arguments.owner_password
                     ELSE arguments.user_password)
IsUserPassword(password) ==
    pad_password(password) = pad_password(arguments.user_password)

\* C12: decrypt(password) returns OWNER when the password authenticates as the
\* owner password, otherwise USER when it authenticates as the user password,
\* otherwise NONE; without a security handler it returns OWNER for every
\* password; and only a call that returns OWNER or USER changes the stored key.
C12_DecryptReturnsAccess ==
    [][ decrypted' # decrypted =>
          /\ decrypted'.value =
                IF security_handler = None THEN OWNER
                ELSE IF IsOwnerPassword(decrypted'.password) THEN OWNER
                ELSE IF IsUserPassword(decrypted'.password) THEN USER
                ELSE NONE
          /\ (_encryption_key' # _encryption_key => decrypted'.value \in {USER, OWNER}) ]_vars

\* C12 witness: on a document with distinct owner and user passwords, the user
\* password was tried, gave USER, and a key is stored
C12_Witness ==
    /\ security_handler # None
    /\ arguments.owner_password = <<111>>
    /\ arguments.user_password = <<117>>
    /\ decrypted # None
    /\ decrypted.password = <<117>>
    /\ decrypted.value = USER
    /\ _encryption_key # None

\* C13: on a document with an Encrypt entry, reading pages raises
\* PermissionError exactly when the access level is NONE; in particular it
\* raises while the empty password tried at opening did not authenticate and no
\* decrypt call has stored a key.
C13_PagesNeedAccess ==
    (trailer.Encrypt # "" /\ pages_read # "") =>
        /\ pages_read = "PermissionError" <=> access_level = NONE
        /\ (security_handler # None /\ _encryption_key = None)
              => pages_read = "PermissionError"

\* C13 witness: pages were read on a document that the empty password did not
\* open and on which no decrypt call has stored a key
C13_Witness ==
    /\ security_handler # None
    /\ access_level = NONE
    /\ _encryption_key = None
    /\ pages_read = "PermissionError"

\* C30: a decrypt call that returns NONE leaves the stored encryption key and
\* the access level as they were, so a document unlocked earlier stays
\* readable; and on a document with a security handler the access level is
\* NONE exactly when no encryption key is stored.
C30_FailedDecryptKeepsState ==
    /\ [](security_handler # None => (access_level = NONE <=> _encryption_key = None))
    /\ [][ (decrypted' # decrypted /\ decrypted'.value = NONE)
            => (_encryption_key' = _encryption_key /\ access_level' = access_level) ]_vars

\* ====================================================== PdfStream.decode
\* a function's outcome: the value returned, or the exception raised
Value(v) == [value |-> v, exc |-> ""]
Exception(name) == [value |-> <<>>, exc |-> name]

WHITESPACE == {0, 9, 10, 12, 13, 32}

\* the value of a hexadecimal digit, -1 for any other byte (casefold=True)
hex_value(ch) ==
    IF ch \in 48..57 THEN ch - 48
    ELSE IF ch \in 65..70 THEN ch - 55
    ELSE IF ch \in 97..102 THEN ch - 87
    ELSE -1

IsNotWhitespace(ch) == ch \notin WHITESPACE

\* ASCIIHexFilter.decode
ASCIIHexFilter_decode(contents) ==
    IF contents = <<>> \/ contents[Len(contents)] # 62
    THEN Exception("PdfFilterError")
    ELSE LET hexdata == SelectSeq(SubSeq(contents, 1, Len(contents) - 1), IsNotWhitespace)
         IN IF Len(hexdata) % 2 = 1 \/ \E i \in 1..Len(hexdata) : hex_value(hexdata[i]) < 0
            THEN Exception("binascii.Error")
            ELSE Value([i \in 1..(Len(hexdata) \div 2) |->
                          16 * hex_value(hexdata[2 * i - 1]) + hex_value(hexdata[2 * i])])

\* ASCIIHexFilter.encode: b16encode(contents) + b">"
hex_digit(v) == IF v < 10 THEN 48 + v ELSE 55 + v
ASCIIHexFilter_encode(contents) ==
    [i \in 1..(2 * Len(contents)) |->
        IF i % 2 = 1 THEN hex_digit(contents[(i + 1) \div 2] \div 16)
        ELSE hex_digit(contents[i \div 2] % 16)] \o <<62>>

\* RunLengthFilter.decode, from position idx (0-based) with `out` decoded so far
RECURSIVE run_length_from(_, _, _)
run_length_from(contents, idx, out) ==
    IF idx >= Len(contents) THEN Value(out)
    ELSE LET lenbyte == contents[idx + 1]
             at == idx + 1
         IN IF lenbyte <= 127
            THEN run_length_from(contents, at + lenbyte + 1,
                    out \o SubSeq(contents, at + 1, Min(at + lenbyte + 1, Len(contents))))
            ELSE IF lenbyte >= 129
            THEN IF at >= Len(contents) THEN Exception("IndexError")
                 ELSE run_length_from(contents, at + 1,
                        out \o [i \in 1..(257 - lenbyte) |-> contents[at + 1]])
            ELSE Value(out)
RunLengthFilter_decode(contents) == run_length_from(contents, 0, <<>>)

\* a run-length encoding of contents: one literal run and the EOD byte
RunLength_encoded(contents) ==
    IF contents = <<>> THEN <<128>> ELSE <<Len(contents) - 1>> \o contents \o <<128>>

\* the names SUPPORTED_FILTERS holds; the model decodes the two filters whose
\* decoding is in the source in full
SUPPORTED_FILTERS ==
    {"FlateDecode", "ASCII85Decode", "ASCIIHexDecode", "RunLengthDecode", "Crypt"}

\* SUPPORTED_FILTERS[name]().decode(contents, params=params)
filter_decode(name, contents) ==
    IF name = "ASCIIHexDecode" THEN ASCIIHexFilter_decode(contents)
    ELSE RunLengthFilter_decode(contents)

\* zip(filters, params)
zip(xs, ys) == [i \in 1..Min(Len(xs), Len(ys)) |-> <<xs[i], ys[i]>>]

\* for filt, params in zip(filters, params): ... output = ....decode(self.raw, ...)
RECURSIVE decode_loop(_, _, _, _)
decode_loop(raw, pairs, i, out) ==
    IF i > Len(pairs) THEN Value(out)
    ELSE IF pairs[i][1] \notin SUPPORTED_FILTERS THEN Exception("PdfFilterError")
    ELSE LET r == filter_decode(pairs[i][1], raw)
         IN IF r.exc # "" THEN r ELSE decode_loop(raw, pairs, i + 1, r.value)

\* PdfStream.decode (PdfStream.decompress in the older stream.py).  Filter is
\* None, [kind "name"] or [kind "array"]; DecodeParms is None, a dictionary or
\* an array of them.
PdfName(name) == [kind |-> "name", value |-> name, items |-> <<>>]
PdfArray(items) == [kind |-> "array", value |-> "", items |-> items]
PdfDictionary(key) == [kind |-> "dict", value |-> key, items |-> <<>>]
PdfStream_decode(stream) ==
    IF stream.Filter = None THEN Value(stream.raw)
    ELSE LET filters == IF stream.Filter.kind = "name" THEN <<stream.Filter.value>>
                        ELSE stream.Filter.items
             params == IF stream.DecodeParms = None \/ stream.DecodeParms.kind # "array"
                       THEN <<stream.DecodeParms>>
                       ELSE stream.DecodeParms.items
         IN decode_loop(stream.raw, zip(filters, params), 1, stream.raw)

\* ------------------------------------------------------------ the streams
MaxFilters == 2     \* names in a Filter array
FilterNames == {"ASCIIHexDecode", "RunLengthDecode", "LZWDecode"}
Plains == { <<>>, <<65>>, <<65, 62>>, <<128, 65>> }

\* the bytes a writer stores for `plain` under the filters: encoded with the
\* last filter first (a name without an encoder leaves the bytes as they are)
RECURSIVE encoded_with(_, _, _)
encoded_with(plain, filters, i) ==
    IF i = 0 THEN plain
    ELSE encoded_with(
            IF filters[i] = "ASCIIHexDecode" THEN ASCIIHexFilter_encode(plain)
            ELSE IF filters[i] = "RunLengthDecode" THEN RunLength_encoded(plain)
            ELSE plain,
            filters, i - 1)

FilterArrays == UNION { [1..n -> FilterNames] : n \in 0..MaxFilters }
\* the shapes of DecodeParms for n filters: absent, one dictionary, an array
ParmsFor(n) ==
    { None, PdfDictionary("Predictor"),
      PdfArray([i \in 1..n |-> PdfDictionary("Predictor")]) }
Streams ==
    { [Filter |-> None, DecodeParms |-> None, raw |-> plain] : plain \in Plains }
    \cup { [Filter |-> PdfName(f), DecodeParms |-> parms,
            raw |-> encoded_with(plain, <<f>>, 1)] :
            f \in FilterNames, parms \in {None, PdfDictionary("Predictor")},
            plain \in Plains }
    \cup UNION { { [Filter |-> PdfArray(fs), DecodeParms |-> parms,
                    raw |-> encoded_with(plain, fs, Len(fs))] :
                    parms \in ParmsFor(Len(fs)), plain \in Plains } :
                 fs \in FilterArrays }

DecodeStream ==
    /\ result = None
    /\ result' = PdfStream_decode(arguments)
    /\ UNCHANGED <<arguments, pageVars, parseVars, secVars>>

InitStream ==
    /\ arguments \in Streams
    /\ result = None
    /\ objects = <<>>
    /\ dicts = <<>>
    /\ pyPages = <<>>
    /\ indexed_pages = <<>>
    /\ last = [op |-> "init", index |-> 0, value |-> 0, exc |-> "", n |-> 0]
    /\ ParserIdle
    /\ SecurityIdle

NextStream == DecodeStream

SpecStream == InitStream /\ [][NextStream]_vars

\* Fn.decode(... F1.decode(raw) ...), when every filter is supported and
\* every decoding succeeds
RECURSIVE decode_chained(_, _, _)
decode_chained(filters, i, out) ==
    IF i > Len(filters) THEN Value(out)
    ELSE IF filters[i] \notin SUPPORTED_FILTERS THEN Exception("PdfFilterError")
    ELSE LET r == filter_decode(filters[i], out)
         IN IF r.exc # "" THEN r ELSE decode_chained(filters, i + 1, r.value)

\* C15: for a stream whose Filter is an array [F1, ..., Fn], decode() returns
\* Fn.decode(... F1.decode(raw) ...): each filter is applied to the output of
\* the one before it, left to right.
C15_FiltersAreChained ==
    (result # None /\ arguments.Filter # None /\ arguments.Filter.kind = "array"
        /\ decode_chained(arguments.Filter.items, 1, arguments.raw).exc = "")
    => result = decode_chained(arguments.Filter.items, 1, arguments.raw)

\* C16: decode() raises PdfFilterError whenever a name of the Filter entry is
\* not a supported filter, wherever the name stands and whatever the shape of
\* DecodeParms.
C16_UnknownFilterRaises ==
    (result # None /\ arguments.Filter # None
        /\ \/ arguments.Filter.kind = "name" /\ arguments.Filter.value \notin SUPPORTED_FILTERS
           \/ \E i \in 1..Len(arguments.Filter.items) :
                 arguments.Filter.items[i] \notin SUPPORTED_FILTERS)
    => result.exc = "PdfFilterError"

\* ================================================ FlateFilter, PNG prediction
\* FlateFilter._predict_paeth
_predict_paeth(a, b, c) ==
    LET p == a + b - c
        pa == abs(p - a)
        pb == abs(p - b)
        pcc == abs(p - c)
    IN IF pa <= pb /\ pa <= pcc THEN a
       ELSE IF pb <= pcc THEN b
       ELSE c

\* FlateFilter._process_png_row from column c (0-based) on: row is a bytearray
\* changed in place, so byte_left is read from what the loop has written
RECURSIVE process_png_row_from(_, _, _, _, _, _)
process_png_row_from(encode, row, filter_type, previous, sample_length, c) ==
    IF c >= Len(row) THEN Value(row)
    ELSE IF c >= Len(previous) THEN Exception("IndexError")
    ELSE LET cur_byte == row[c + 1]
             byte_left == IF c >= sample_length THEN row[c - sample_length + 1] ELSE 0
             byte_up == previous[c + 1]
             byte_up_left == IF c >= sample_length THEN previous[c - sample_length + 1] ELSE 0
             avg == (byte_left + byte_up) \div 2
             paeth == _predict_paeth(byte_left, byte_up, byte_up_left)
             pred == IF filter_type = 1 THEN byte_left
                     ELSE IF filter_type = 2 THEN byte_up
                     ELSE IF filter_type = 3 THEN avg
                     ELSE paeth
             char == IF filter_type = 0 THEN cur_byte
                     ELSE IF encode THEN cur_byte - pred
                     ELSE cur_byte + pred
         IN IF filter_type \notin 0..4 THEN Exception("PdfFilterError")
            ELSE process_png_row_from(encode,
                    [row EXCEPT ![c + 1] = IF filter_type # 0 THEN char % 256 ELSE char],
                    filter_type, previous, sample_length, c + 1)

_process_png_row(encode, row, filter_type, previous, sample_length) ==
    process_png_row_from(encode, row, filter_type, previous, sample_length, 0)

\* seq[a:b] for 0 <= a <= b
py_slice(seq, a, b) == SubSeq(seq, a + 1, Min(b, Len(seq)))
\* ceil(colors * bpc / 8)
sample_length_of(colors, bpc) == (colors * bpc + 7) \div 8
zeros(n) == [i \in 1..n |-> 0]

\* FlateFilter._undo_png_prediction, rows from offset r on
RECURSIVE undo_png_from(_, _, _, _, _, _)
undo_png_from(filtered, sample_length, row_length, r, previous, out) ==
    IF r >= Len(filtered) THEN Value(out)
    ELSE LET filter_type == filtered[r + 1]
             decoded == _process_png_row(FALSE, py_slice(filtered, r + 1, r + 1 + row_length),
                                         filter_type, previous, sample_length)
         IN IF decoded.exc # "" THEN decoded
            ELSE undo_png_from(filtered, sample_length, row_length, r + 1 + row_length,
                               decoded.value, out \o decoded.value)

_undo_png_prediction(filtered, cols, colors, bpc) ==
    LET sample_length == sample_length_of(colors, bpc)
        row_length == sample_length * cols
    IN undo_png_from(filtered, sample_length, row_length, 0, zeros(row_length), <<>>)

\* FlateFilter._apply_png_prediction, rows from offset r on; Optimum (5) is
\* written as Paeth (4) with the row as _process_png_row left it
RECURSIVE apply_png_from(_, _, _, _, _, _, _)
apply_png_from(to_filter, filter_type, sample_length, row_length, r, previous, out) ==
    IF r >= Len(to_filter) THEN Value(out)
    ELSE LET row == py_slice(to_filter, r, r + row_length)
             encoded == _process_png_row(TRUE, row, IF filter_type = 5 THEN 4 ELSE filter_type,
                                         previous, sample_length)
         IN IF filter_type \notin 0..5 THEN Exception("PdfFilterError")
            ELSE IF encoded.exc # "" THEN encoded
            ELSE apply_png_from(to_filter, filter_type, sample_length, row_length,
                                r + row_length, row,
                                out \o <<IF filter_type = 5 THEN 4 ELSE filter_type>>
                                    \o encoded.value)

_apply_png_prediction(to_filter, filter_type, cols, colors, bpc) ==
    LET sample_length == sample_length_of(colors, bpc)
        row_length == sample_length * cols
    IN apply_png_from(to_filter, filter_type, sample_length, row_length, 0,
                      zeros(row_length), <<>>)

\* -------------------------------------------------------------- the images
MaxCols == 3        \* Columns ranges over 1..MaxCols
MaxData == 4        \* bytes of image data
ByteValues == {0, 1, 255}
Samples == { [Colors |-> 1, BitsPerComponent |-> 8],
             [Colors |-> 1, BitsPerComponent |-> 1],
             [Colors |-> 3, BitsPerComponent |-> 4] }
Images ==
    UNION { UNION { { [to_filter |-> x, filter_type |-> t, cols |-> cols,
                       colors |-> sm.Colors, bpc |-> sm.BitsPerComponent] :
                        x \in UNION { [1..(rows * cols * sample_length_of(sm.Colors,
                                                          sm.BitsPerComponent)) -> ByteValues] :
                                      rows \in { n \in 0..MaxData :
                                                   n * cols * sample_length_of(sm.Colors,
                                                          sm.BitsPerComponent) <= MaxData } },
                        t \in 0..5 } :
                    cols \in 1..MaxCols } :
            sm \in Samples }

\* predict, then undo the prediction
PredictAndUndo ==
    /\ result = None
    /\ LET a == arguments
           applied == _apply_png_prediction(a.to_filter, a.filter_type, a.cols, a.colors, a.bpc)
       IN result' = IF applied.exc # "" THEN applied
                    ELSE _undo_png_prediction(applied.value, a.cols, a.colors, a.bpc)
    /\ UNCHANGED <<arguments, pageVars, parseVars, secVars>>

InitPng ==
    /\ arguments \in Images
    /\ result = None
    /\ objects = <<>>
    /\ dicts = <<>>
    /\ pyPages = <<>>
    /\ indexed_pages = <<>>
    /\ last = [op |-> "init", index |-> 0, value |-> 0, exc |-> "", n |-> 0]
    /\ ParserIdle
    /\ SecurityIdle

NextPng == PredictAndUndo

SpecPng == InitPng /\ [][NextPng]_vars

\* C17: _undo_png_prediction(_apply_png_prediction(x, t)) = x for every filter
\* type t of None, Sub, Up, Average, Paeth, Optimum, every Colors,
\* BitsPerComponent and Columns, and every x made of whole rows.
C17_PngRoundTrip ==
    result # None => result = Value(arguments.to_filter)

\* ------------------------------------------- freed objects after parse()
\* what the section at position i of the chain lists for object number n
MentionsAt(i, n) == { l \in Listed(TableAt(i)) : l.key[1] = n }
\* the most recent section that mentions object n marks it free
FreedLast(n) ==
    \E i \in 1..Len(Chain) :
        /\ MentionsAt(i, n) # {}
        /\ \A l \in MentionsAt(i, n) : l.entry.kind = "free"
        /\ \A j \in 1..(i - 1) : MentionsAt(j, n) = {}

\* C29: if the most recent xref section that mentions object n marks it free,
\* then after parse() the merged xref holds no in-use entry for n and
\* resolving a reference to n, with any generation it had in an older
\* section, returns the null object.
C29_FreedResolvesToNull ==
    pc = "done" =>
        \A n \in 1..(BaseSize + MaxUpdates) :
            FreedLast(n) =>
                /\ \A k \in DOMAIN xref : k[1] = n => xref[k].kind = "free"
                /\ (resolved # NoCall /\ resolved.ref[1] = n)
                       => (resolved.exc = "" /\ resolved.value = PdfNull)

\* ================================================= clone_into_document
\* The source document is a sequence of indirect objects, each a dictionary
\* [Type, vals]; a value is a reference to a source object, a direct array of
\* values, or (in a clone) null or the Placeholder.  `root` is the dictionary
\* that object RootNum of the source resolves to.  References are equal when
\* their numbers are, and a dictionary is found in cloned_map only as itself.
RefV(num) == [kind |-> "ref", num |-> num, items |-> <<>>]
ArrV(items) == [kind |-> "array", num |-> 0, items |-> items]
NullV == [kind |-> "null", num |-> 0, items |-> <<>>]
Placeholder == [kind |-> "Placeholder", num |-> 0, items |-> <<>>]
RootNum == 1

\* is_page_or_page_tree
is_page_or_page_tree(obj) == obj.Type \in {"Page", "Pages"}

\* The state of one call: cloned_map for references (source number -> number
\* in dest, 0 when absent) and for dictionaries (source object -> clone, 0
\* when absent), the heap kv of the dictionaries made (each with the source
\* object it copies), dest.objects (object number -> dictionary of kv, 0 for
\* an object dest held before the call) and the set `references`.
CloneState(source, store) ==
    [map_ref |-> [n \in 1..Len(source) |-> 0], map_dict |-> [n \in 1..Len(source) |-> 0],
     kv |-> <<>>, store |-> store, references |-> {}]
Step(st, value) == [st |-> st, value |-> value]

\* dest.objects.add(obj): the state after the add; the new number is the last
objects_add(st, id) == [st EXCEPT !.store = store_add(@, id)]

RECURSIVE inner_ref(_, _, _)
RECURSIVE inner_dict(_, _, _)
RECURSIVE inner_value(_, _, _)
RECURSIVE inner_vals(_, _, _, _, _)
RECURSIVE inner_items(_, _, _, _, _)

\* inner(obj) for a PdfReference to source object n
inner_ref(source, st, n) ==
    IF st.map_ref[n] # 0 THEN Step(st, RefV(st.map_ref[n]))
    ELSE IF n = RootNum THEN Step(st, Placeholder)
    ELSE IF is_page_or_page_tree(source[n]) THEN Step(st, NullV)
    ELSE LET cloned_direct == inner_dict(source, st, n)
             added == objects_add(cloned_direct.st, cloned_direct.value)
             num == Len(added.store)
         IN Step([added EXCEPT !.map_ref[n] = num, !.references = @ \cup {num}],
                 RefV(num))

\* inner(obj) for the dictionary of source object k; the value is its clone
inner_dict(source, st, k) ==
    IF st.map_dict[k] # 0 THEN Step(st, st.map_dict[k])
    ELSE LET id == Len(st.kv) + 1
             st1 == [st EXCEPT !.kv = Append(@, [src |-> k, vals |-> <<>>]),
                               !.map_dict[k] = id]
         IN Step(inner_vals(source, st1, id, source[k].vals, 1), id)

\* for key, value in obj.data.items(): kv.data[key] = inner(value)
inner_vals(source, st, id, vals, i) ==
    IF i > Len(vals) THEN st
    ELSE LET r == inner_value(source, st, vals[i])
         IN inner_vals(source, [r.st EXCEPT !.kv[id].vals = Append(@, r.value)],
                       id, vals, i + 1)

\* inner(obj) for a value of a dictionary or an array
inner_value(source, st, v) ==
    IF v.kind = "ref" THEN inner_ref(source, st, v.num)
    ELSE IF v.kind = "array" THEN inner_items(source, st, v.items, 1, <<>>)
    ELSE Step(st, v)

\* for value in obj.data: arr.data.append(inner(value))
inner_items(source, st, items, i, out) ==
    IF i > Len(items) THEN Step(st, ArrV(out))
    ELSE LET r == inner_value(source, st, items[i])
         IN inner_items(source, r.st, items, i + 1, Append(out, r.value))

RECURSIVE replace_value(_, _, _)
RECURSIVE replace_all(_, _, _, _, _)

\* replace_placeholders(obj) for a value: every Placeholder is replaced by
\* dest.objects.add(cloned)
replace_value(st, cloned, v) ==
    IF v.kind = "Placeholder"
    THEN LET added == objects_add(st, cloned) IN Step(added, RefV(Len(added.store)))
    ELSE IF v.kind = "array"
    THEN LET r == replace_all(st, cloned, v.items, 1, <<>>) IN Step(r.st, ArrV(r.value))
    ELSE Step(st, v)

replace_all(st, cloned, vals, i, out) ==
    IF i > Len(vals) THEN Step(st, out)
    ELSE LET r == replace_value(st, cloned, vals[i])
         IN replace_all(r.st, cloned, vals, i + 1, Append(out, r.value))

\* replace_placeholders(obj) for a dictionary: a new PdfDictionary is made
replace_placeholders(st, cloned, id) ==
    LET r == replace_all(st, cloned, st.kv[id].vals, 1, <<>>)
    IN Step([r.st EXCEPT !.kv = Append(@, [src |-> st.kv[id].src, vals |-> r.value])],
            Len(r.st.kv) + 1)

\* for ref in references: dest.objects[n] = replace_placeholders(dest.objects[n])
RECURSIVE replace_in_references(_, _, _)
replace_in_references(st, cloned, todo) ==
    IF todo = {} THEN st
    ELSE LET num == CHOOSE n \in todo : \A m \in todo : n <= m
             r == replace_placeholders(st, cloned, st.store[num])
         IN replace_in_references([r.st EXCEPT !.store[num] = r.value], cloned,
                                  todo \ {num})

\* clone_into_document(dest, root): the dictionaries made, dest.objects after
\* the call and the dictionary returned
clone_into_document(store, source) ==
    LET cloned == inner_dict(source, CloneState(source, store), RootNum)
        final == replace_placeholders(cloned.st, cloned.value, cloned.value)
        done == replace_in_references(final.st, cloned.value, final.st.references)
    IN [kv |-> done.kv, store |-> done.store, final |-> final.value,
        cloned |-> cloned.value, exc |-> ""]

\* ------------------------------------------------------- the object graphs
\* Source documents of MaxObjects dictionaries with up to MaxVals values each:
\* references to any object (so to root, to the object itself and in cycles)
\* and a direct array holding a reference to root.  Object RootNum is a page,
\* the last object may be a page tree node, and dest holds two objects before
\* the call.
MaxObjects == 3
MaxVals == 2

RECURSIVE TuplesUpTo(_, _)
TuplesUpTo(S, n) ==
    IF n = 0 THEN {<<>>}
    ELSE LET shorter == TuplesUpTo(S, n - 1)
         IN shorter \cup {Append(t, x) : t \in {u \in shorter : Len(u) = n - 1}, x \in S}

SourceValues == {RefV(n) : n \in 1..MaxObjects} \cup {ArrV(<<RefV(RootNum)>>)}
TypeOf(n) == IF n = RootNum THEN {"Page"} ELSE IF n = MaxObjects THEN {"", "Pages"} ELSE {""}
Sources ==
    {source \in [1..MaxObjects -> [Type : {"", "Page", "Pages"},
                                   vals : TuplesUpTo(SourceValues, MaxVals)]] :
        \A n \in 1..MaxObjects : source[n].Type \in TypeOf(n)}
DestObjects == <<0, 0>>

CloneIntoDocument ==
    /\ result = None
    /\ result' = clone_into_document(arguments.dest, arguments.source)
    /\ UNCHANGED <<arguments, pageVars, parseVars, secVars>>

InitClone ==
    /\ arguments \in {[dest |-> DestObjects, source |-> source] : source \in Sources}
    /\ result = None
    /\ objects = <<>>
    /\ dicts = <<>>
    /\ pyPages = <<>>
    /\ indexed_pages = <<>>
    /\ last = None
    /\ ParserIdle
    /\ SecurityIdle

NextClone == CloneIntoDocument

SpecClone == InitClone /\ [][NextClone]_vars

\* ----------------------------------------------------- clones, properties
\* The dictionaries of the result to look into: the one returned and the ones
\* dest.objects gained.
ClonedDicts ==
    {result.final} \cup {result.store[n] : n \in Len(DestObjects) + 1..Len(result.store)}

\* The values a dictionary of the result holds where the source object it
\* copies holds a reference to root, directly or in an array.
AtRootReferences(id) ==
    LET from == arguments.source[result.kv[id].src].vals
        to == result.kv[id].vals
    IN {to[i] : i \in {j \in 1..Len(from) : from[j] = RefV(RootNum)}}
       \cup {to[i].items[k] : i \in {j \in 1..Len(from) : from[j].kind = "array"},
                              k \in {1}}

RootReferences == UNION {AtRootReferences(id) : id \in ClonedDicts}

\* The numbers under which dest.objects holds a copy of source object k.
IdentitiesOf(k) ==
    {n \in Len(DestObjects) + 1..Len(result.store) : result.kv[result.store[n]].src = k}

\* C18: after clone_into_document, every reference that pointed to root in the
\* source (in the clone at any depth, and in the indirect objects cloned with
\* it) is one and the same reference, and it designates the single object of
\* dest.objects that holds the clone of root.
C18_RootReferencesAreOne ==
    result # None =>
        \A v \in RootReferences :
            /\ v.kind = "ref"
            /\ \A w \in RootReferences : w = v
            /\ IdentitiesOf(RootNum) = {v.num}

\* The source objects clone_into_document copies: the ones reached from root by
\* references, not going through root again nor through pages and page trees.
RefsIn(vals) ==
    {vals[i].num : i \in {j \in 1..Len(vals) : vals[j].kind = "ref"}}
RECURSIVE ReachedFrom(_, _)
ReachedFrom(seen, k) ==
    LET next == {n \in RefsIn(arguments.source[k].vals) :
                    /\ n # RootNum
                    /\ n \notin seen
                    /\ ~is_page_or_page_tree(arguments.source[n])}
    IN IF next = {} THEN seen
       ELSE LET n == CHOOSE x \in next : TRUE IN ReachedFrom(ReachedFrom(seen \cup {n}, n), k)
Copied == ReachedFrom({}, RootNum)

\* C19: clone_into_document ends on every object graph, cyclic ones included,
\* and every source object it copies has exactly one identity in dest.objects.
C19_NoObjectAddedTwice ==
    result # None => \A k \in Copied : Cardinality(IdentitiesOf(k)) = 1

\* -------------------------------------------------- parse and Prev cycles
\* The offsets parse() has moved to and parsed a section at, in order: the
\* walk from startxref along Prev, one step per table in update_xrefs.
RECURSIVE walk_from(_, _, _)
walk_from(f, at, steps) ==
    IF steps = 0 THEN <<>>
    ELSE <<at>> \o walk_from(f, f.sections[at].trailer.Prev, steps - 1)
ParsedOffsets == walk_from(file, file.startxref, Len(update_xrefs))

\* C20: parse() ends on every file, also when the Prev links of its trailers
\* form a cycle, and it parses no cross-reference section offset twice.
C20_NoOffsetParsedTwice ==
    /\ pc # "RecursionError"
    /\ \A i, j \in 1..Len(ParsedOffsets) : ParsedOffsets[i] = ParsedOffsets[j] => i = j

\* ================================================== SimpleObjectParser
\* The buffer is a sequence of bytes and `position` a 0-based offset into it,
\* as in the source; a slice beyond the end is empty.
\* self.current
current(data, position) == py_slice(data, position, position + 1)
\* self.peek(n)
peek(data, position, n) == py_slice(data, position + 1, position + 1 + n)
at_end(data, position) == position >= Len(data)
\* self.advance(n): the position after it
advance(data, position, n) == IF at_end(data, position) THEN position ELSE position + n
\* data.find(byte, start)
find(data, byte, start) ==
    LET hits == { i \in start..(Len(data) - 1) : data[i + 1] = byte }
    IN IF hits = {} THEN -1 ELSE CHOOSE i \in hits : \A j \in hits : i <= j

\* self.next_eol(): (position of the next end-of-line marker, the marker)
next_eol(data, position) ==
    LET carriage == find(data, 13, position)
        newline == find(data, 10, position)
        first == Min(carriage, newline)
    IN IF carriage # -1 /\ newline # -1
       THEN IF data[first + 1] = 13 /\ carriage + 1 = newline
            THEN [pos |-> first, eol |-> <<13, 10>>]
            ELSE [pos |-> first, eol |-> <<data[first + 1]>>]
       ELSE IF carriage # -1 THEN [pos |-> carriage, eol |-> <<13>>]
       ELSE IF newline # -1 THEN [pos |-> newline, eol |-> <<10>>]
       ELSE [pos |-> -1, eol |-> <<>>]

\* self.advance_whitespace(): the position after it
RECURSIVE advance_whitespace(_, _)
advance_whitespace(data, position) ==
    IF at_end(data, position) \/ data[position + 1] \notin WHITESPACE THEN position
    ELSE advance_whitespace(data, position + 1)

\* bytes.isdigit() of a slice of at most one byte
isdigit(bytes) == bytes # <<>> /\ \A i \in 1..Len(bytes) : bytes[i] \in 48..57

\* STRING_ESCAPE.get(b"\\" + next): the byte of a one-letter escape, -1 (None)
STRING_ESCAPE(next) ==
    IF next = <<110>> THEN 10
    ELSE IF next = <<114>> THEN 13
    ELSE IF next = <<116>> THEN 9
    ELSE IF next = <<98>> THEN 8
    ELSE IF next = <<102>> THEN 12
    ELSE IF next = <<40>> THEN 40
    ELSE IF next = <<41>> THEN 41
    ELSE IF next = <<92>> THEN 92
    ELSE -1

\* the digits read by: while not at_end and len(code) < 3 and current.isdigit()
RECURSIVE octal_code(_, _, _)
octal_code(data, position, code) ==
    IF at_end(data, position) \/ Len(code) >= 3 \/ ~isdigit(current(data, position))
    THEN code
    ELSE octal_code(data, position + 1, Append(code, data[position + 1]))

\* int(code, 8): -1 stands for ValueError (a digit 8 or 9)
RECURSIVE int_base8(_, _, _)
int_base8(code, i, acc) ==
    IF i > Len(code) THEN acc
    ELSE IF code[i] \notin 48..55 THEN -1
    ELSE int_base8(code, i + 1, acc * 8 + (code[i] - 48))

\* chr(n).encode(): the UTF-8 encoding of code point n < 2048
chr_encode(n) ==
    IF n < 128 THEN <<n>> ELSE <<192 + (n \div 64), 128 + (n % 64)>>

\* SimpleObjectParser.parse_literal_string, the loop from a state
\* [position, string, paren_depth] on
RECURSIVE literal_string_from(_, _)
literal_string_from(data, s) ==
    IF at_end(data, s.position) \/ s.paren_depth < 1 THEN Value(s.string)
    ELSE LET here == current(data, s.position)
             escape == IF here = <<92>> THEN STRING_ESCAPE(peek(data, s.position, 1)) ELSE -1
             eol == next_eol(data, s.position)
             continued == here = <<92>> /\ s.position + 1 = eol.pos
             octal == here = <<92>> /\ ~continued /\ isdigit(peek(data, s.position, 1))
             code == octal_code(data, advance(data, s.position, 1), <<>>)
             \* the state when the escape logic is left without `continue`
             s1 == IF continued
                   THEN [s EXCEPT !.position = advance(data, @, 1 + Len(eol.eol))]
                   ELSE IF octal
                   THEN [s EXCEPT !.position = advance(data, @, 1) + Len(code),
                                  !.string = @ \o chr_encode(int_base8(code, 1, 0))]
                   ELSE s
             now == current(data, s1.position)
             depth == IF now = <<40>> THEN s1.paren_depth + 1
                      ELSE IF now = <<41>> THEN s1.paren_depth - 1
                      ELSE s1.paren_depth
         IN IF escape # -1
            THEN literal_string_from(data, [s EXCEPT !.string = Append(@, escape),
                                                     !.position = advance(data, @, 2)])
            ELSE IF octal /\ int_base8(code, 1, 0) = -1 THEN Exception("ValueError")
            ELSE literal_string_from(data,
                    [position |-> advance(data, s1.position, 1),
                     string |-> IF depth # 0 THEN s1.string \o now ELSE s1.string,
                     paren_depth |-> depth])

\* SimpleObjectParser(data).parse_literal_string() with the cursor on the (
parse_literal_string(data) ==
    literal_string_from(data, [position |-> advance(data, 0, 1), string |-> <<>>,
                               paren_depth |-> 1])

\* ------------------------------------------------------ the literal strings
\* Literal strings ( body ) with bodies of up to MaxBody bytes out of a
\* backslash, the digits 0, 2 and 8, and a letter.
MaxBody == 5
BodyBytes == {92, 48, 50, 56, 97}
LiteralStrings == { <<40>> \o body \o <<41>> : body \in TuplesUpTo(BodyBytes, MaxBody) }

ParseLiteralString ==
    /\ result = None
    /\ result' = parse_literal_string(arguments.data)
    /\ UNCHANGED <<arguments, pageVars, parseVars, secVars>>

InitString ==
    /\ arguments \in { [data |-> d] : d \in LiteralStrings }
    /\ result = None
    /\ objects = <<>>
    /\ dicts = <<>>
    /\ pyPages = <<>>
    /\ indexed_pages = <<>>
    /\ last = [op |-> "init", index |-> 0, value |-> 0, exc |-> "", n |-> 0]
    /\ ParserIdle
    /\ SecurityIdle

NextString == ParseLiteralString

SpecString == InitString /\ [][NextString]_vars

\* What a body reads as when every backslash starts an octal escape: one to
\* three octal digits give one byte, and the next byte is ordinary content.
\* ok is FALSE for a body with a backslash that no octal digit follows.
RECURSIVE octal_digits(_, _, _)
octal_digits(body, i, code) ==
    IF i > Len(body) \/ Len(code) >= 3 \/ body[i] \notin 48..55 THEN code
    ELSE octal_digits(body, i + 1, Append(code, body[i]))
RECURSIVE read_as(_, _, _)
read_as(body, i, out) ==
    IF i > Len(body) THEN [ok |-> TRUE, string |-> out]
    ELSE IF body[i] # 92 THEN read_as(body, i + 1, Append(out, body[i]))
    ELSE LET code == octal_digits(body, i + 1, <<>>)
         IN IF code = <<>> THEN [ok |-> FALSE, string |-> out]
            ELSE read_as(body, i + 1 + Len(code), Append(out, int_base8(code, 1, 0)))
BodyOf(data) == SubSeq(data, 2, Len(data) - 1)

\* C24: in a literal string a backslash followed by one to three octal digits
\* produces exactly one byte, the value of the octal number; at most three
\* digits are consumed, and the first non-octal character (8 and 9 included)
\* ends the escape and is read as ordinary string content.
C24_OctalEscapeIsOneByte ==
    (result # None /\ read_as(BodyOf(arguments.data), 1, <<>>).ok)
        => result = Value(read_as(BodyOf(arguments.data), 1, <<>>).string)

\* ====================================== PdfParser.parse_indirect_object
\* The buffer holds bytes and, for the runs of bytes that the regular
\* expression of parse_indirect_object and next_token read as a whole, one
\* value above 255 each: 1000 + n is the header "n 0 obj", 2000 + k the integer
\* k, 3000 + k the dictionary << /Length k >>, 4000 + n the dictionary
\* << /Length n 0 R >>, and 999 the keyword endobj.
Header(n) == 1000 + n
IntToken(k) == 2000 + k
DictLength(k) == 3000 + k
DictLengthRef(n) == 4000 + n
EndObj == 999
stream_keyword == <<115, 116, 114, 101, 97, 109>>
endstream_keyword == <<101, 110, 100>> \o stream_keyword

\* the objects read: an integer, a dictionary (its Length an integer n, or a
\* reference to object n when ref holds), a stream, null, or no token
Object(kind, n, ref, raw) == [kind |-> kind, n |-> n, ref |-> ref, raw |-> raw]
NoToken == Object("None", 0, FALSE, <<>>)
\* self.next_token() at the position: the token and the position after it
next_token(data, position) ==
    LET c == IF at_end(data, position) THEN 0 ELSE data[position + 1]
    IN IF c \in 2000..2999 THEN [tok |-> Object("int", c - 2000, FALSE, <<>>), position |-> position + 1]
       ELSE IF c \in 3000..3999
       THEN [tok |-> Object("dict", c - 3000, FALSE, <<>>), position |-> position + 1]
       ELSE IF c \in 4000..4999
       THEN [tok |-> Object("dict", c - 4000, TRUE, <<>>), position |-> position + 1]
       ELSE [tok |-> NoToken, position |-> position]

\* what a parsing call gives: the object or the exception, the position of the
\* tokenizer after it and the offsets parse_indirect_object was entered at
Parsed(value, exc, position, entered) ==
    [value |-> value, exc |-> exc, position |-> position, entered |-> entered]

\* the offset of the first in-use entry that follows xref_entry in self.xref
\* and lies beyond it, -1 when there is none (StopIteration)
next_entry_offset(xref_entries, xref_entry) ==
    LET index_after == CHOOSE i \in 1..Len(xref_entries) : xref_entries[i] = xref_entry
        hold == { i \in (index_after + 1)..Len(xref_entries) :
                    xref_entries[i].offset > xref_entry.offset }
    IN IF hold = {} THEN -1
       ELSE xref_entries[CHOOSE i \in hold : \A j \in hold : i <= j].offset

\* a parse_stream that takes a lone carriage return for the marker as well
parse_stream_any_eol(data, xref_entries, xref_entry, extent, position, entered) ==
    LET p1 == advance(data, position, 6)
        e1 == next_eol(data, p1)
        p2 == IF e1.pos = p1 THEN advance(data, p1, Len(e1.eol)) ELSE p1
        contents == py_slice(data, p2, p2 + extent)
        p3 == advance(data, p2, Len(contents))
        e2 == next_eol(data, p3)
        p4 == IF e2.pos = p3 /\ e2.eol # <<13>> THEN advance(data, p3, Len(e2.eol)) ELSE p3
        following == next_entry_offset(xref_entries, xref_entry)
        p5 == advance_whitespace(data, p4)
    IN IF following # -1 /\ p4 >= following
       THEN Parsed(NoToken, "PdfParseError", p4, entered)
       ELSE IF current(data, p5) \o peek(data, p5, 8) # endstream_keyword
       THEN Parsed(NoToken, "PdfParseError", p5, entered)
       ELSE Parsed(Object("bytes", 0, FALSE, contents), "", advance(data, p5, 9), entered)

\* PdfParser.parse_stream(xref_entry, extent) with the cursor on the keyword
parse_stream(data, xref_entries, xref_entry, extent, position, entered) ==
    LET p1 == advance(data, position, 6)
        e1 == next_eol(data, p1)
        p2 == IF e1.pos = p1 /\ e1.eol # <<13>> THEN advance(data, p1, Len(e1.eol)) ELSE p1
        contents == py_slice(data, p2, p2 + extent)
        p3 == advance(data, p2, Len(contents))
        e2 == next_eol(data, p3)
        p4 == IF e2.pos = p3 /\ e2.eol # <<13>> THEN advance(data, p3, Len(e2.eol)) ELSE p3
        following == next_entry_offset(xref_entries, xref_entry)
        p5 == advance_whitespace(data, p4)
    IN IF following # -1 /\ p4 >= following
       THEN Parsed(NoToken, "PdfParseError", p4, entered)
       ELSE IF current(data, p5) \o peek(data, p5, 8) # endstream_keyword
       THEN Parsed(NoToken, "PdfParseError", p5, entered)
       ELSE Parsed(Object("bytes", 0, FALSE, contents), "", advance(data, p5, 9), entered)

\* a side trip after which the cursor stays where the resolver left it
keep_position(_current, position) == position

\* _current = position; length = resolve_reference(length); position = _current
restore_position(_current, position) == _current

RECURSIVE parse_indirect_object_at(_, _, _, _)
RECURSIVE resolve_reference_at(_, _, _, _, _)

\* PdfParser.parse_indirect_object(xref_entry) on the buffer; a call deeper
\* than MaxFrames raises RecursionError
parse_indirect_object_at(data, xref_entries, xref_entry, entered) ==
    LET p0 == advance_whitespace(data, xref_entry.offset)
        p1 == advance_whitespace(data, advance(data, p0, 1))
        t == next_token(data, p1)
        p2 == advance_whitespace(data, t.position)
        here == Append(entered, xref_entry.offset)
        side == resolve_reference_at(data, xref_entries, <<t.tok.n, 0>>, p2, here)
        length == IF t.tok.ref THEN side.value ELSE Object("int", t.tok.n, FALSE, <<>>)
        p3 == IF t.tok.ref THEN restore_position(p2, side.position) ELSE p2
        seen == IF t.tok.ref THEN side.entered ELSE here
        contents == parse_stream(data, xref_entries, xref_entry, length.n, p3, seen)
    IN IF Len(entered) >= MaxFrames THEN Parsed(NoToken, "RecursionError", xref_entry.offset, entered)
       ELSE IF at_end(data, p0) \/ data[p0 + 1] \notin 1000..1999
       THEN Parsed(NoToken, "PdfParseError", p0, here)
       ELSE IF current(data, p2) \o peek(data, p2, 5) # stream_keyword
       THEN Parsed(t.tok, "", p2, here)
       ELSE IF t.tok.kind # "dict" THEN Parsed(NoToken, "TypeError", p2, here)
       ELSE IF t.tok.ref /\ side.exc # "" THEN side
       ELSE IF length.kind # "int" THEN Parsed(NoToken, "PdfParseError", p3, seen)
       ELSE IF contents.exc # "" THEN contents
       ELSE Parsed(Object("stream", t.tok.n, t.tok.ref, contents.value.raw), "",
                   contents.position, contents.entered)

\* PdfParser.resolve_reference((n, g)) on the buffer, the tokenizer being at
\* `position`: null for a key self.xref does not hold
resolve_reference_at(data, xref_entries, reference, position, entered) ==
    LET found == { i \in 1..Len(xref_entries) : xref_entries[i].key = reference }
    IN IF found = {} THEN Parsed(Object("null", 0, FALSE, <<>>), "", position, entered)
       ELSE parse_indirect_object_at(data, xref_entries,
                                     xref_entries[CHOOSE i \in found : TRUE], entered)

\* ------------------------------------------------------ the stream objects
\* Files with the stream object 1: its payload of up to MaxPayload bytes, the
\* bytes between the keyword and the payload (\r\n, \n, \r or nothing), the
\* bytes between the payload and endstream, and where its Length is: in the
\* dictionary, in the integer object 2 written before or after the stream, in
\* the stream itself, in a second stream whose Length is object 1, or in an
\* object the file does not hold.
MaxPayload == 2
PayloadBytes == {10, 13, 65}
Eols == { <<13, 10>>, <<10>>, <<13>>, <<>> }
Layouts == {"direct", "before", "after", "self", "cycle", "missing"}

IntegerObject(n, k) == <<Header(n), 32, IntToken(k), 10, EndObj, 10>>
StreamObject(n, dictionary, eol, payload, eol2) ==
    <<Header(n), 32, dictionary, 10>> \o stream_keyword \o eol \o payload \o eol2
        \o endstream_keyword \o <<10, EndObj, 10>>
InUse(n, offset) == [key |-> <<n, 0>>, offset |-> offset]

\* the file, self.xref in the order of its keys, and the offset right after
\* the stream keyword of object 1
StreamFile(layout, eol, payload, eol2) ==
    LET length == Len(payload)
        one(dictionary) == StreamObject(1, dictionary, eol, payload, eol2)
        two == IntegerObject(2, length)
        made(data, xref_entries, at) ==
            [data |-> data, xref |-> xref_entries, after_keyword |-> at + 4 + 6,
             layout |-> layout, eol |-> eol, payload |-> payload]
    IN IF layout = "direct" THEN made(one(DictLength(length)), <<InUse(1, 0)>>, 0)
       ELSE IF layout = "before"
       THEN made(two \o one(DictLengthRef(2)), <<InUse(1, Len(two)), InUse(2, 0)>>, Len(two))
       ELSE IF layout = "after"
       THEN made(one(DictLengthRef(2)) \o two,
                 <<InUse(1, 0), InUse(2, Len(one(DictLengthRef(2))))>>, 0)
       ELSE IF layout = "self" THEN made(one(DictLengthRef(1)), <<InUse(1, 0)>>, 0)
       ELSE IF layout = "cycle"
       THEN made(one(DictLengthRef(2)) \o StreamObject(2, DictLengthRef(1), <<10>>, <<65>>, <<10>>),
                 <<InUse(1, 0), InUse(2, Len(one(DictLengthRef(2))))>>, 0)
       ELSE made(one(DictLengthRef(3)), <<InUse(1, 0)>>, 0)

StreamFiles ==
    { StreamFile(layout, eol, payload, eol2) :
        layout \in Layouts, eol \in Eols,
        payload \in TuplesUpTo(PayloadBytes, MaxPayload), eol2 \in {<<>>, <<10>>} }

\* resolve_reference((1, 0)) on a parser whose xref is that of the file
ResolveObject ==
    /\ result = None
    /\ result' = resolve_reference_at(arguments.data, arguments.xref, <<1, 0>>, 0, <<>>)
    /\ UNCHANGED <<arguments, pageVars, parseVars, secVars>>

InitObject ==
    /\ arguments \in StreamFiles
    /\ result = None
    /\ objects = <<>>
    /\ dicts = <<>>
    /\ pyPages = <<>>
    /\ indexed_pages = <<>>
    /\ last = [op |-> "init", index |-> 0, value |-> 0, exc |-> "", n |-> 0]
    /\ ParserIdle
    /\ SecurityIdle

NextObject == ResolveObject

SpecObject == InitObject /\ [][NextObject]_vars

\* ---------------------------------------------- stream object properties
Resolved == result # None
Acyclic == arguments.layout \in {"direct", "before", "after"}
Indirect == arguments.layout \in {"before", "after"}

\* the end-of-line marker the file holds right after the stream keyword
MarkerAt(data, position) ==
    IF py_slice(data, position, position + 2) = <<13, 10>> THEN <<13, 10>>
    ELSE IF py_slice(data, position, position + 1) = <<10>> THEN <<10>>
    ELSE IF py_slice(data, position, position + 1) = <<13>> THEN <<13>>
    ELSE <<>>

\* C21: when Length is a reference, resolving it does not move the cursor the
\* stream read sees: for a stream object whose Length is the integer object 2,
\* written before or after the stream, and whose keyword is followed by \r\n
\* or \n, the payload read is the Length bytes after the keyword and its
\* end-of-line marker.
C21_LengthSideTripKeepsPosition ==
    (Resolved /\ Indirect /\ arguments.eol \in { <<13, 10>>, <<10>> }) =>
        /\ result.exc = ""
        /\ result.value.kind = "stream"
        /\ result.value.raw = arguments.payload

C21_Witness ==
    /\ Resolved
    /\ arguments.layout = "after"
    /\ arguments.eol = <<13, 10>>
    /\ Len(arguments.payload) = MaxPayload
    /\ result.exc = ""
    /\ result.value.raw = arguments.payload

\* C22: a cycle through Length references (a stream whose Length is the stream
\* itself, or two streams whose Lengths are each other) ends with a resolution
\* error, and no object is entered again while it is being parsed.
C22_LengthCycleIsResolutionError ==
    (Resolved /\ arguments.layout \in {"self", "cycle"}) =>
        /\ result.exc = "PdfParseError"
        /\ \A i, j \in 1..Len(result.entered) :
               result.entered[i] = result.entered[j] => i = j

\* C23: after the stream keyword exactly one end-of-line marker, \r\n, \n or
\* a lone \r, is skipped, and the payload is the Length bytes after it.
C23_OneEolSkipped ==
    (/\ Resolved /\ Acyclic
     /\ arguments.eol # <<>>
     /\ MarkerAt(arguments.data, arguments.after_keyword) = arguments.eol) =>
        /\ result.exc = ""
        /\ result.value.raw = arguments.payload

\* C23 (amended): after the stream keyword the parser skips exactly one
\* end-of-line marker when it is \r\n or \n, and nothing else: a lone \r is
\* not skipped. The payload is the Length bytes starting right after the
\* \r\n or \n, and right after the keyword when neither is there.
C23_OneEolSkippedUnlessLoneCR ==
    (Resolved /\ Acyclic) =>
        LET marker == MarkerAt(arguments.data, arguments.after_keyword)
            start == arguments.after_keyword + (IF marker = <<13>> THEN 0 ELSE Len(marker))
        IN /\ result.exc = "" =>
                  result.value.raw =
                      py_slice(arguments.data, start, start + Len(arguments.payload))
           /\ arguments.eol \in { <<13, 10>>, <<10>> } =>
                  result.exc = "" /\ result.value.raw = arguments.payload

C23_Witness ==
    /\ Resolved
    /\ arguments.layout = "direct"
    /\ arguments.eol = <<13>>
    /\ arguments.payload = <<65, 10>>
    /\ result.exc = ""
    /\ result.value.raw = <<13, 65>>

====
